---- MODULE Spec2Model ----
(***************************************************************************)
(* Reconciliation and sync engine of quickbook-atek-sync: the customer     *)
(* mapping table, the invoice validation state machine and the invoice     *)
(* sync procedure, as state machines over the three relational tables and  *)
(* the remote accounting platform.                                         *)
(*                                                                         *)
(* Conventions.  JavaScript null is the string Null, the empty string is   *)
(* "" and both are falsy.  A table is a set of rows carrying the           *)
(* autoincrement primary key; findFirst without ORDER BY returns the       *)
(* matching row of lowest rowid (SQLite's table scan order).  Timestamps   *)
(* are the value of the logical clock at the call.  Scores are integers.   *)
(***************************************************************************)
EXTENDS Integers, Sequences, FiniteSets, TLC

VARIABLES
    ledger,             \* the ledger's invoices: invoice id -> NormalizedInvoice (read only)
    customerMapping,    \* table customer_mapping
    skuMapping,         \* table sku_mapping
    invoiceValidation,  \* table invoice_validation
    matchingAlgorithmLog, \* table matching_algorithm_log
    qbInvoices,         \* the invoices held by the remote accounting platform
    confirmed,          \* history: <<invoice id, remote id>> of every remote write that returned
    nextId,             \* the next autoincrement key of each table and the next remote id
    clock,              \* logical time: the number of handler calls started
    lastCall,           \* the last completed handler call: what it was given, saw and returned
    pc,                 \* interleaved calls: position of each process
    loc                 \* interleaved calls: local variables of each process

vars == <<ledger, customerMapping, skuMapping, invoiceValidation, matchingAlgorithmLog,
          qbInvoices, confirmed, nextId, clock, lastCall, pc, loc>>

-----------------------------------------------------------------------------
(* Bounds of the model *)

\* handler calls per behaviour of the sequential specifications
MaxCalls == 4

\* handler calls per behaviour of the specification of the checks
MaxChecks == 2

\* invoice ids handed to the batch handlers per behaviour
MaxBatch == 3

-----------------------------------------------------------------------------
(* Values *)

Null == "null"

Falsy(s) == s = "" \/ s = Null

\* a || b of JavaScript on strings
OrElse(a, b) == IF Falsy(a) THEN b ELSE a

InvoiceIds == {"inv1"}
OrgIds == {"o1", "o2"}
ManagerIds == {"m1"}
QbCustomerIds == {"c1"}
SkuCodes == {"A"}

MinBy(S, key(_)) == CHOOSE r \in S : \A q \in S : key(r) <= key(q)

\* db.query.<table>.findFirst: {} when nothing matches, else the first row scanned
FindFirst(rows, key(_)) == IF rows = {} THEN {} ELSE {MinBy(rows, key)}

The(S) == CHOOSE x \in S : TRUE

-----------------------------------------------------------------------------
(* Invoice validation service: the checks *)

Issue(type, severity, code, count, skus) ==
    [type |-> type, severity |-> severity, code |-> code, count |-> count, skus |-> skus]

MappingKey(r) == r.mappingId

FindCustomerMapping(cm, organizationId, managerId) ==
    FindFirst({r \in cm : r.atekOrganizationId = organizationId
                          /\ r.atekContractualManagerId = managerId}, MappingKey)

CustomerResult(isValid, mappingId, qbId, issues) ==
    [isValid |-> isValid, mappingId |-> mappingId,
     quickbooksCustomerId |-> qbId, issues |-> issues]

\* the target customer looked at before the approval
CustomerResultOfLinkFirst(effectiveMapping) ==
    IF effectiveMapping = {}
    THEN CustomerResult(FALSE, 0, Null,
            <<Issue("customer_mapping", "error", "CUSTOMER_NO_MAPPING", 0, <<>>)>>)
    ELSE IF Falsy(The(effectiveMapping).quickbooksCustomerId)
    THEN CustomerResult(FALSE, The(effectiveMapping).mappingId, Null,
            <<Issue("customer_mapping", "error", "CUSTOMER_NO_QB_LINK", 0, <<>>)>>)
    ELSE IF The(effectiveMapping).mappingStatus # "approved"
    THEN CustomerResult(FALSE, The(effectiveMapping).mappingId,
            The(effectiveMapping).quickbooksCustomerId,
            <<Issue("customer_mapping", "error", "CUSTOMER_NOT_APPROVED", 0, <<>>)>>)
    ELSE CustomerResult(TRUE, The(effectiveMapping).mappingId,
            The(effectiveMapping).quickbooksCustomerId, <<>>)

\* the verdict on the mapping row resolved for the invoice ({} when there is none)
CustomerResultOf(effectiveMapping) ==
    IF effectiveMapping = {}
    THEN CustomerResult(FALSE, 0, Null,
            <<Issue("customer_mapping", "error", "CUSTOMER_NO_MAPPING", 0, <<>>)>>)
    ELSE IF The(effectiveMapping).mappingStatus # "approved"
    THEN CustomerResult(FALSE, The(effectiveMapping).mappingId,
            The(effectiveMapping).quickbooksCustomerId,
            <<Issue("customer_mapping", "error", "CUSTOMER_NOT_APPROVED", 0, <<>>)>>)
    ELSE IF Falsy(The(effectiveMapping).quickbooksCustomerId)
    THEN CustomerResult(FALSE, The(effectiveMapping).mappingId, Null,
            <<Issue("customer_mapping", "error", "CUSTOMER_NO_QB_LINK", 0, <<>>)>>)
    ELSE CustomerResult(TRUE, The(effectiveMapping).mappingId,
            The(effectiveMapping).quickbooksCustomerId, <<>>)

\* the manager-specific mapping, else the organization's mapping without manager
EffectiveMapping(mapping, cm, organizationId, managerId) ==
    IF mapping = {} /\ managerId # ""
    THEN FindCustomerMapping(cm, organizationId, "")
    ELSE mapping

checkCustomerMapping(cm, organizationId, contractualManagerId) ==
    IF Falsy(organizationId)
    THEN CustomerResult(FALSE, 0, Null,
            <<Issue("customer_mapping", "error", "CUSTOMER_NO_ORG", 0, <<>>)>>)
    ELSE CustomerResultOf(
            EffectiveMapping(
                FindCustomerMapping(cm, organizationId, OrElse(contractualManagerId, "")),
                cm, organizationId, OrElse(contractualManagerId, "")))

\* the Map of distinct SKUs of the line items, in insertion order
RECURSIVE SkuIdentifiers(_, _)
SkuIdentifiers(lineItems, seen) ==
    IF lineItems = <<>> THEN <<>>
    ELSE LET item == Head(lineItems)
             key == OrElse(item.skuCode, item.skuId)
         IN  IF ~Falsy(key) /\ key \notin seen
             THEN <<[key |-> key, skuId |-> item.skuId, skuCode |-> item.skuCode]>>
                  \o SkuIdentifiers(Tail(lineItems), seen \cup {key})
             ELSE SkuIdentifiers(Tail(lineItems), seen)

\* the mapping row checkSkuMappings resolves for one distinct SKU: by code, then by id
SkuMappingOr(byCode, sm, sku) ==
    IF byCode = {} /\ ~Falsy(sku.skuId)
    THEN FindFirst({r \in sm : r.atekSkuId = sku.skuId}, MappingKey)
    ELSE byCode

FindSkuMappingByKey(sm, sku) ==
    SkuMappingOr(FindFirst({r \in sm : r.atekSkuCode = sku.key}, MappingKey), sm, sku)

\* a row that is not approved counted as no row
SkuReasonOfNoRowUnlessApproved(mapping) ==
    IF mapping = {} THEN "no_mapping"
    ELSE IF The(mapping).mappingStatus = "needs_creation" THEN "needs_creation"
    ELSE IF The(mapping).mappingStatus # "approved" THEN "no_mapping"
    ELSE IF Falsy(The(mapping).quickbooksItemId) THEN "not_approved"
    ELSE "mapped"

\* the reason a distinct SKU is unmapped given its mapping row, "mapped" when it is valid
SkuReasonOf(mapping) ==
    IF mapping = {} THEN "no_mapping"
    ELSE IF The(mapping).mappingStatus = "needs_creation" THEN "needs_creation"
    ELSE IF The(mapping).mappingStatus # "approved" THEN "not_approved"
    ELSE IF Falsy(The(mapping).quickbooksItemId) THEN "not_approved"
    ELSE "mapped"

SkuReason(sm, sku) == SkuReasonOf(FindSkuMappingByKey(sm, sku))

RECURSIVE SkuCodesOf(_)
SkuCodesOf(skus) ==
    IF skus = <<>> THEN <<>>
    ELSE <<OrElse(Head(skus).skuCode, Head(skus).skuId)>> \o SkuCodesOf(Tail(skus))

\* the SKUs of skus whose reason is reason
SkusWith(sm, skus, reason) == SelectSeq(skus, LAMBDA s : SkuReason(sm, s) = reason)

\* the result checkSkuMappings returns for the distinct SKUs, sorted by reason
SkuResultOf(skus, noMappingSkus, notApprovedSkus, needsCreationSkus, mappedSkus) ==
    [isComplete |-> Len(noMappingSkus) + Len(notApprovedSkus) = 0,
     totalSkus |-> Len(skus),
     mappedSkus |-> Len(mappedSkus),
     issues |->
        (IF Len(noMappingSkus) > 0
         THEN <<Issue("sku_mapping", "error", "SKU_NO_MAPPING",
                      Len(noMappingSkus), SkuCodesOf(noMappingSkus))>>
         ELSE <<>>)
        \o (IF Len(notApprovedSkus) > 0
            THEN <<Issue("sku_mapping", "error", "SKU_NOT_APPROVED",
                         Len(notApprovedSkus), SkuCodesOf(notApprovedSkus))>>
            ELSE <<>>)
        \o (IF Len(needsCreationSkus) > 0
            THEN <<Issue("sku_mapping", "warning", "SKU_NEEDS_CREATION",
                         Len(needsCreationSkus), SkuCodesOf(needsCreationSkus))>>
            ELSE <<>>)]

SkuResultFor(sm, skus) ==
    SkuResultOf(skus, SkusWith(sm, skus, "no_mapping"), SkusWith(sm, skus, "not_approved"),
                SkusWith(sm, skus, "needs_creation"), SkusWith(sm, skus, "mapped"))

checkSkuMappings(sm, lineItems) ==
    IF lineItems = <<>>
    THEN [isComplete |-> TRUE, totalSkus |-> 0, mappedSkus |-> 0, issues |-> <<>>]
    ELSE SkuResultFor(sm, SkuIdentifiers(lineItems, {}))

checkInvoiceStatus(invoice) ==
    IF invoice.status \in {"sent", "paid", "partial", "overdue"} THEN <<>>
    ELSE IF invoice.status = "draft"
    THEN <<Issue("invoice_status", "error", "INVOICE_DRAFT", 0, <<>>)>>
    ELSE IF invoice.status \in {"cancelled", "void"}
    THEN <<Issue("invoice_status", "error", "INVOICE_CANCELLED", 0, <<>>)>>
    ELSE <<Issue("invoice_status", "error", "INVOICE_INVALID_STATUS", 0, <<>>)>>

checkDataQuality(invoice) ==
    (IF invoice.lineItems = <<>>
     THEN <<Issue("data_quality", "error", "MISSING_LINE_ITEMS", 0, <<>>)>> ELSE <<>>)
    \o (IF Falsy(invoice.invoiceNumber)
        THEN <<Issue("data_quality", "warning", "MISSING_INVOICE_NUMBER", 0, <<>>)>> ELSE <<>>)
    \o (IF invoice.totalAmount <= 0
        THEN <<Issue("data_quality", "warning", "ZERO_TOTAL", 0, <<>>)>> ELSE <<>>)

aggregateBlockingIssues(customerResult, skuResult, statusIssues, dataIssues) ==
    customerResult.issues \o skuResult.issues \o statusIssues \o dataIssues

\* WEIGHTS, in hundredths
WEIGHT_CUSTOMER == 40
WEIGHT_SKU == 60

\* the confidence score as the fraction num/den: 0.4 * customer + 0.6 * mapped/total
\* the two weights exchanged
calculateConfidenceScoreSwapped(customerResult, skuResult) ==
    IF skuResult.totalSkus > 0
    THEN [num |-> (IF customerResult.isValid THEN 1 ELSE 0) * WEIGHT_SKU
                      * skuResult.totalSkus
                  + skuResult.mappedSkus * WEIGHT_CUSTOMER,
          den |-> 100 * skuResult.totalSkus]
    ELSE [num |-> (IF customerResult.isValid THEN 1 ELSE 0) * WEIGHT_SKU + WEIGHT_CUSTOMER,
          den |-> 100]

calculateConfidenceScore(customerResult, skuResult) ==
    IF skuResult.totalSkus > 0
    THEN [num |-> (IF customerResult.isValid THEN 1 ELSE 0) * WEIGHT_CUSTOMER
                      * skuResult.totalSkus
                  + skuResult.mappedSkus * WEIGHT_SKU,
          den |-> 100 * skuResult.totalSkus]
    ELSE [num |-> (IF customerResult.isValid THEN 1 ELSE 0) * WEIGHT_CUSTOMER + WEIGHT_SKU,
          den |-> 100]

\* a warning blocks like an error
HasErrorsOrWarnings(issues) == issues # <<>>

HasErrors(issues) == \E k \in 1..Len(issues) : issues[k].severity = "error"

\* step 6: the ValidationResult built from the checks
ResultOf(invoice, customerResult, skuResult, blockingIssues) ==
    [invoiceId |-> invoice.id,
     invoiceNumber |-> invoice.invoiceNumber,
     status |-> IF HasErrors(blockingIssues) THEN "blocked" ELSE "ready",
     customerMappingValidated |-> customerResult.isValid,
     allSkusMapped |-> skuResult.isComplete,
     blockingIssues |-> blockingIssues,
     confidenceScore |-> calculateConfidenceScore(customerResult, skuResult),
     readyForSync |-> ~HasErrors(blockingIssues),
     skuSummary |-> [total |-> skuResult.totalSkus, mapped |-> skuResult.mappedSkus]]

\* step 5: the issues of the four checks aggregated
ResultOfChecks(invoice, customerResult, skuResult, statusIssues, dataIssues) ==
    ResultOf(invoice, customerResult, skuResult,
             aggregateBlockingIssues(customerResult, skuResult, statusIssues, dataIssues))

\* the ValidationResult validateInvoice computes from the invoice and the mapping tables
ValidationResultOf(cm, sm, invoice) ==
    ResultOfChecks(invoice,
                   checkCustomerMapping(cm, invoice.organizationId,
                                        invoice.contractualManagerId),
                   checkSkuMappings(sm, invoice.lineItems),
                   checkInvoiceStatus(invoice), checkDataQuality(invoice))

-----------------------------------------------------------------------------
(* Invoice validation service: database operations *)

ValidationKey(r) == r.validationId

\* storeValidationResult, the read: the existing row of the invoice
FindValidation(iv, atekInvoiceId) ==
    FindFirst({r \in iv : r.atekInvoiceId = atekInvoiceId}, ValidationKey)

\* the columns storeValidationResult writes
ValidationData(row, invoice, result) ==
    [row EXCEPT !.atekInvoiceId = invoice.id,
                !.atekInvoiceNumber = invoice.invoiceNumber,
                !.validationStatus = result.status,
                !.customerMappingValidated = result.customerMappingValidated,
                !.allSkusMapped = result.allSkusMapped,
                !.blockingIssues = result.blockingIssues,
                !.confidenceScore = result.confidenceScore,
                !.readyForSync = result.readyForSync]

\* a fresh row with the column defaults of the schema
NewValidationRow(validationId) ==
    [validationId |-> validationId, atekInvoiceId |-> "", atekInvoiceNumber |-> "",
     validationStatus |-> "pending", customerMappingValidated |-> FALSE,
     allSkusMapped |-> FALSE, blockingIssues |-> <<>>,
     confidenceScore |-> [num |-> 0, den |-> 100], readyForSync |-> FALSE,
     syncApprovedBy |-> Null, quickbooksInvoiceId |-> Null, syncDate |-> 0]

\* the guard dropped: a synced row is overwritten like any other
SkipsStoreNever(existing) == FALSE

\* "Don't overwrite synced invoices"
SkipsStore(existing) == existing.validationStatus = "synced"

\* storeValidationResult, the write, given the row the read found
StoreWrite(iv, existing, invoice, result, newId) ==
    IF existing # {}
    THEN IF SkipsStore(The(existing)) THEN iv
         ELSE {IF r.validationId = The(existing).validationId
               THEN ValidationData(r, invoice, result) ELSE r : r \in iv}
    ELSE iv \cup {ValidationData(NewValidationRow(newId), invoice, result)}

storeValidationResult(iv, invoice, result, newId) ==
    StoreWrite(iv, FindValidation(iv, invoice.id), invoice, result, newId)

\* whether storeValidationResult inserts a row (and draws a key)
StoreInserts(existing) == existing = {}

LogRow(logId, entityType, atekEntityId) ==
    [logId |-> logId, entityType |-> entityType, atekEntityId |-> atekEntityId]

logValidationAttempt(log, invoice, logId) == log \cup {LogRow(logId, "invoice", invoice.id)}

getValidationStatus(iv, atekInvoiceId) == FindValidation(iv, atekInvoiceId)

\* the flag set without the approver
approveForSyncUnsigned(iv, atekInvoiceId, approvedBy) ==
    {IF r.atekInvoiceId = atekInvoiceId THEN [r EXCEPT !.readyForSync = TRUE] ELSE r :
     r \in iv}

approveForSync(iv, atekInvoiceId, approvedBy) ==
    {IF r.atekInvoiceId = atekInvoiceId
     THEN [r EXCEPT !.readyForSync = TRUE, !.syncApprovedBy = approvedBy]
     ELSE r : r \in iv}

\* the status set without the remote id
markAsSyncedStatusOnly(iv, atekInvoiceId, quickbooksInvoiceId, now) ==
    {IF r.atekInvoiceId = atekInvoiceId
     THEN [r EXCEPT !.validationStatus = "synced", !.syncDate = now]
     ELSE r : r \in iv}

markAsSynced(iv, atekInvoiceId, quickbooksInvoiceId, now) ==
    {IF r.atekInvoiceId = atekInvoiceId
     THEN [r EXCEPT !.validationStatus = "synced",
                    !.quickbooksInvoiceId = quickbooksInvoiceId,
                    !.syncDate = now]
     ELSE r : r \in iv}

clearValidation(iv, atekInvoiceId) == {r \in iv : r.atekInvoiceId # atekInvoiceId}

\* the ready rows left behind
clearAllValidationsButReady(iv) ==
    {r \in iv : r.validationStatus \notin {"pending", "blocked"}}

\* clearAllValidations: the rows left
clearAllValidations(iv) ==
    {r \in iv : r.validationStatus \notin {"pending", "ready", "blocked"}}

\* the audit rows clearAllValidations leaves
clearInvoiceLog(log) == {l \in log : l.entityType # "invoice"}

\* the count clearAllValidations returns: remaining.length
clearAllValidationsDeleted(iv) == Cardinality(clearAllValidations(iv))

getInvoice(ldg, id) == IF id \in DOMAIN ldg THEN {ldg[id]} ELSE {}

-----------------------------------------------------------------------------
(* The remote accounting platform (qb-invoices service) *)

\* the ids the platform hands out, in order
QbIdNames == <<"q1", "q2", "q3", "q4", "q5", "q6", "q7", "q8">>
QbId(n) == QbIdNames[n]

\* an invoice entered on the platform before any sync
PreExistingQbInvoice ==
    [Id |-> "q0", SyncToken |-> 0, DocNumber |-> "INV-1", CustomerRef |-> "c1", Line |-> <<>>]

\* messages of failed platform calls
UpstreamErrors == {"Rate limit exceeded", "Stale object error"}

\* what getInvoiceByDocNumber can return: nothing (no match, or the call failed and
\* was caught), or the first invoice of the query response
getInvoiceByDocNumber(qb, docNumber) ==
    {{}} \cup {{r} : r \in {q \in qb : q.DocNumber = docNumber}}

\* what checkDuplicateInQB can return for the invoice; it is not called without a number
checkDuplicateInQB(qb, invoiceNumber) ==
    IF Falsy(invoiceNumber) THEN {{}} ELSE getInvoiceByDocNumber(qb, invoiceNumber)

\* the entity a successful createInvoice returns
CreatedInvoice(input, newId) ==
    [Id |-> newId, SyncToken |-> 0, DocNumber |-> input.DocNumber,
     CustomerRef |-> input.CustomerRef, Line |-> input.Line]

createInvoice(qb, input, newId) == qb \cup {CreatedInvoice(input, newId)}

\* the entity a successful updateInvoice returns: the addressed invoice, rewritten
UpdatedInvoice(old, updates) ==
    [Id |-> old.Id, SyncToken |-> old.SyncToken + 1, DocNumber |-> updates.DocNumber,
     CustomerRef |-> updates.CustomerRef, Line |-> updates.Line]

updateInvoice(qb, invoiceId, updates) ==
    {IF r.Id = invoiceId THEN UpdatedInvoice(r, updates) ELSE r : r \in qb}

-----------------------------------------------------------------------------
(* Invoice sync service *)

NoError == [prefix |-> "", detail |-> "", names |-> <<>>]
Error(prefix, detail) == [prefix |-> prefix, detail |-> detail, names |-> <<>>]

SyncResult(id, number, success, qbId, skippedReason, error, lines) ==
    [atekInvoiceId |-> id, atekInvoiceNumber |-> number, success |-> success,
     quickbooksInvoiceId |-> qbId, skippedReason |-> skippedReason,
     error |-> error, lineItemsCreated |-> lines]

\* steps 3 and 4 of syncInvoice: the customer of the remote invoice, or the failure result
CustomerOrFailure(validation, c) ==
    IF (validation = {} \/ The(validation).validationStatus = "pending") /\ ~c.isValid
    THEN [ok |-> FALSE, customerResult |-> c,
          error |-> Error("", "Customer mapping not approved")]
    ELSE IF ~c.isValid \/ Falsy(c.quickbooksCustomerId)
    THEN [ok |-> FALSE, customerResult |-> c,
          error |-> Error("", IF c.issues # <<>> THEN c.issues[1].code
                              ELSE "No customer mapping")]
    ELSE [ok |-> TRUE, customerResult |-> c, error |-> NoError]

SyncCustomer(validation, cm, invoice, qbCustomerId) ==
    IF ~Falsy(qbCustomerId)
    THEN [ok |-> TRUE, customerResult |-> CustomerResult(TRUE, 0, qbCustomerId, <<>>),
          error |-> NoError]
    ELSE CustomerOrFailure(validation,
            checkCustomerMapping(cm, invoice.organizationId, invoice.contractualManagerId))

ItemMappingOr(byCode, sm, item) ==
    IF byCode # {} THEN byCode
    ELSE IF ~Falsy(item.skuId)
    THEN FindFirst({r \in sm : r.atekSkuId = item.skuId}, MappingKey)
    ELSE {}

getSkuMappingForItem(sm, item) ==
    ItemMappingOr(IF ~Falsy(item.skuCode)
                  THEN FindFirst({r \in sm : r.atekSkuCode = item.skuCode}, MappingKey)
                  ELSE {},
                  sm, item)

\* the status of the row not looked at
LineMappingOfAnyStatus(mapping) ==
    IF mapping = {} THEN "missing"
    ELSE IF Falsy(The(mapping).quickbooksItemId) THEN "missing"
    ELSE "ok"

\* "missing" | "not_approved" | "ok" for a line item, given its mapping row
LineMappingOf(mapping) ==
    IF mapping = {} THEN "missing"
    ELSE IF Falsy(The(mapping).quickbooksItemId) THEN "missing"
    ELSE IF The(mapping).mappingStatus # "approved" THEN "not_approved"
    ELSE "ok"

LineMapping(sm, item) == LineMappingOf(getSkuMappingForItem(sm, item))

\* the entry buildQBInvoice records for a line item that cannot be built
MissingEntry(item, how) ==
    IF how = "ok" THEN <<>>
    ELSE <<[sku |-> OrElse(item.skuCode, OrElse(item.skuId, "Unknown SKU")),
            notApproved |-> how = "not_approved"]>>

RECURSIVE MissingMappings(_, _)
MissingMappings(sm, lineItems) ==
    IF lineItems = <<>> THEN <<>>
    ELSE MissingEntry(Head(lineItems), LineMapping(sm, Head(lineItems)))
         \o MissingMappings(sm, Tail(lineItems))

\* the remote line of a line item, given its mapping row
QbLine(item, mapping) ==
    IF LineMappingOf(mapping) = "ok"
    THEN <<[Amount |-> item.amount,
            ItemRef |-> The(mapping).quickbooksItemId,
            Qty |-> item.quantity,
            UnitPrice |-> IF item.amount = 0 THEN 0 ELSE item.unitPrice]>>
    ELSE <<>>

RECURSIVE QbLines(_, _)
QbLines(sm, lineItems) ==
    IF lineItems = <<>> THEN <<>>
    ELSE QbLine(Head(lineItems), getSkuMappingForItem(sm, Head(lineItems)))
         \o QbLines(sm, Tail(lineItems))

NoQbInvoice == [CustomerRef |-> Null, DocNumber |-> "", Line |-> <<>>]

BuildResult(invoice, customerResult, missingMappings, lineItems) ==
    IF Len(missingMappings) > 0
    THEN [success |-> FALSE, invoice |-> NoQbInvoice,
          error |-> [prefix |-> "Missing SKU mappings: ", detail |-> "",
                     names |-> missingMappings]]
    ELSE IF Len(lineItems) = 0
    THEN [success |-> FALSE, invoice |-> NoQbInvoice,
          error |-> Error("", "No line items could be mapped")]
    ELSE [success |-> TRUE,
          invoice |-> [CustomerRef |-> customerResult.quickbooksCustomerId,
                       DocNumber |-> invoice.invoiceNumber,
                       Line |-> lineItems],
          error |-> NoError]

buildQBInvoice(sm, invoice, customerResult) ==
    BuildResult(invoice, customerResult, MissingMappings(sm, invoice.lineItems),
                QbLines(sm, invoice.lineItems))

\* the duplicate ignored: every sync creates
WriteKindAlwaysCreate(existingInQB) == "create"

\* step 5: the remote write syncInvoice issues, given what the duplicate lookup returned
WriteKind(existingInQB) == IF existingInQB # {} THEN "update" ELSE "create"

\* the order the ledger returns its invoices in (date, descending)
LedgerOrder == <<"inv1", "inv2", "inv3">>

NoRemote == [kind |-> "none", ok |-> FALSE, Id |-> Null, SyncToken |-> 0, found |-> {},
             message |-> ""]

\* the platform after the write, and the entity it returned
RemoteWrite(qb, existingInQB, input, newId) ==
    IF WriteKind(existingInQB) = "update"
    THEN [qb |-> updateInvoice(qb, The(existingInQB).Id, input),
          entity |-> UpdatedInvoice(The(existingInQB), input)]
    ELSE [qb |-> createInvoice(qb, input, newId),
          entity |-> CreatedInvoice(input, newId)]

\* the row marked before the outcome of the write is known
AfterWriteUnconditional(iv, atekInvoiceId, writeOk, entity, now) ==
    markAsSynced(iv, atekInvoiceId, entity.Id, now)

\* the local write that follows the remote write
AfterWrite(iv, atekInvoiceId, writeOk, entity, now) ==
    IF writeOk THEN markAsSynced(iv, atekInvoiceId, entity.Id, now) ELSE iv

\* the result syncInvoice returns after the remote write
\* a sync whose lookup found nothing reported as skipped
WriteResultSkipsUnlessFound(invoice, existingInQB, writeOk, entity, input, message) ==
    IF existingInQB = {}
    THEN SyncResult(invoice.id, invoice.invoiceNumber, FALSE, Null, "already_synced",
                    NoError, 0)
    ELSE SyncResult(invoice.id, invoice.invoiceNumber, writeOk, entity.Id, Null, NoError,
                    Len(input.Line))

WriteResult(invoice, existingInQB, writeOk, entity, input, message) ==
    IF writeOk
    THEN SyncResult(invoice.id, invoice.invoiceNumber, TRUE, entity.Id, Null, NoError,
                    Len(input.Line))
    ELSE SyncResult(invoice.id, invoice.invoiceNumber, FALSE, Null, Null,
                    Error(IF WriteKind(existingInQB) = "update"
                          THEN "QB Update Error: " ELSE "QB Error: ", message), 0)

\* Map.get on a Map built from the rows in scan order: the last row of the key
LastRow(rows) ==
    IF rows = {} THEN {} ELSE {CHOOSE r \in rows : \A q \in rows : q.mappingId <= r.mappingId}

\* getMappingKey: organization and manager, a missing manager being the empty string
customerMappingByOrgManager(cm, orgId, managerId) ==
    LastRow({r \in cm : /\ r.atekOrganizationId = orgId
                        /\ OrElse(r.atekContractualManagerId, "") = OrElse(managerId, "")})

\* the organization's last approved row, else its first row
customerMappingByOrg(cm, orgId) ==
    IF \E r \in cm : r.atekOrganizationId = orgId /\ r.mappingStatus = "approved"
    THEN LastRow({r \in cm : r.atekOrganizationId = orgId /\ r.mappingStatus = "approved"})
    ELSE FindFirst({r \in cm : r.atekOrganizationId = orgId}, MappingKey)

\* the mapping the invoice listing shows for an invoice ({} for null)
findMapping(cm, orgId, managerId) ==
    IF customerMappingByOrgManager(cm, orgId, managerId) # {}
    THEN customerMappingByOrgManager(cm, orgId, managerId)
    ELSE IF customerMappingByOrgManager(cm, orgId, "") # {}
    THEN customerMappingByOrgManager(cm, orgId, "")
    ELSE customerMappingByOrg(cm, orgId)

-----------------------------------------------------------------------------
(* Customer matching service *)

\* THRESHOLDS, in hundredths
AUTO_APPROVE_THRESHOLD == 95
NEEDS_REVIEW_THRESHOLD == 70

\* the results matchOrganization returns: the best remote customer (or none), its
\* confidence in hundredths, and the method
MatchResult(qbCustomer, confidenceScore, matchingMethod) ==
    [qbCustomer |-> qbCustomer, confidenceScore |-> confidenceScore,
     matchingMethod |-> matchingMethod]

MatchResults ==
    {MatchResult(Null, 0, "no_match")}
    \cup {MatchResult(c, 100, "org_num_exact") : c \in QbCustomerIds}
    \cup {MatchResult(c, 70, "name_fuzzy") : c \in QbCustomerIds}
    \cup {MatchResult(c, 60, "name_fuzzy") : c \in QbCustomerIds}

determineMappingStatus(result) ==
    IF result.qbCustomer = Null THEN "needs_review"
    ELSE IF result.confidenceScore >= AUTO_APPROVE_THRESHOLD THEN "proposed"
    ELSE IF result.confidenceScore >= NEEDS_REVIEW_THRESHOLD THEN "proposed"
    ELSE "needs_review"

CustomerMappingRow(mappingId, org, manager, qbCustomerId, status, score, method, by, at) ==
    [mappingId |-> mappingId, atekOrganizationId |-> org,
     atekContractualManagerId |-> manager, quickbooksCustomerId |-> qbCustomerId,
     mappingStatus |-> status, confidenceScore |-> score, matchingMethod |-> method,
     approvedBy |-> by, lastModifiedDate |-> at]

\* the columns storeMapping writes
MappingData(row, orgId, managerId, result, now) ==
    [row EXCEPT !.atekOrganizationId = orgId,
                !.atekContractualManagerId = managerId,
                !.quickbooksCustomerId = result.qbCustomer,
                !.mappingStatus = determineMappingStatus(result),
                !.confidenceScore = result.confidenceScore,
                !.matchingMethod = IF result.matchingMethod = "org_num_exact"
                                   THEN "email_exact" ELSE "name_fuzzy",
                !.lastModifiedDate = now]

\* a fresh row with the column defaults of the schema
NewMappingRow(mappingId) ==
    CustomerMappingRow(mappingId, "", "", Null, "proposed", 0, Null, Null, 0)

\* every existing row is refreshed, whatever its status
MayRewriteAny(existing) == TRUE

\* "Only update if not already approved/rejected"
MayRewrite(existing) == existing.mappingStatus \in {"proposed", "needs_review"}

\* manager is Null or a manager id
storeMapping(cm, orgId, result, manager, newId, now) ==
    LET managerId == OrElse(manager, "")
        existing == FindCustomerMapping(cm, orgId, managerId)
    IN  IF existing # {}
        THEN IF MayRewrite(The(existing))
             THEN {IF r.mappingId = The(existing).mappingId
                   THEN MappingData(r, orgId, managerId, result, now) ELSE r : r \in cm}
             ELSE cm
        ELSE cm \cup {MappingData(NewMappingRow(newId), orgId, managerId, result, now)}

storeMappingInserts(cm, orgId, manager) ==
    FindCustomerMapping(cm, orgId, OrElse(manager, "")) = {}

\* the managers in the order the ledger's aggregation returns them
ManagerOrder == <<"m1", "m2">>

\* getContractualManagersByOrganization: the managers of the organization's invoices
ManagersOf(ldg, orgId) ==
    {ldg[i].contractualManagerId :
        i \in {j \in DOMAIN ldg : ldg[j].organizationId = orgId
                                  /\ ~Falsy(ldg[j].contractualManagerId)}}

\* the storeMapping calls runCustomerMatching makes for one organization, in order
StoreJobs(ldg, orgId) ==
    IF ManagersOf(ldg, orgId) = {} THEN <<Null>>
    ELSE SelectSeq(ManagerOrder, LAMBDA m : m \in ManagersOf(ldg, orgId))

logMatchingAttempt(log, orgId, logId) == log \cup {LogRow(logId, "customer", orgId)}

\* the storeMapping calls of one organization applied in order
RECURSIVE StoreForOrg(_, _, _, _, _, _)
StoreForOrg(cm, orgId, result, managers, newId, now) ==
    IF managers = <<>> THEN [cm |-> cm, newId |-> newId]
    ELSE StoreForOrg(storeMapping(cm, orgId, result, Head(managers), newId, now),
                     orgId, result, Tail(managers),
                     IF storeMappingInserts(cm, orgId, Head(managers))
                     THEN newId + 1 ELSE newId,
                     now)

\* runCustomerMatching over the organizations orgs (a sequence), results[o] being
\* what matchOrganization returned for o
RECURSIVE runCustomerMatching(_, _, _, _, _, _, _)
runCustomerMatching(cm, log, ldg, orgs, results, ids, now) ==
    IF orgs = <<>> THEN [cm |-> cm, log |-> log, ids |-> ids]
    ELSE LET o == Head(orgs)
             st == StoreForOrg(cm, o, results[o], StoreJobs(ldg, o), ids.mapping, now)
         IN  runCustomerMatching(st.cm, logMatchingAttempt(log, o, ids.log), ldg,
                                 Tail(orgs), results,
                                 [ids EXCEPT !.mapping = st.newId, !.log = @ + 1], now)

approveMapping(cm, mappingId, approvedBy, now) ==
    {IF r.mappingId = mappingId
     THEN [r EXCEPT !.mappingStatus = "approved", !.approvedBy = approvedBy,
                    !.lastModifiedDate = now]
     ELSE r : r \in cm}

rejectMapping(cm, mappingId, now) ==
    {IF r.mappingId = mappingId
     THEN [r EXCEPT !.mappingStatus = "rejected", !.lastModifiedDate = now]
     ELSE r : r \in cm}

\* createManualMapping for an organization and a remote customer that both exist
createManualMapping(cm, atekOrgId, qbCustomerId, approvedBy, newId, now) ==
    LET existing == FindFirst({r \in cm : r.atekOrganizationId = atekOrgId}, MappingKey)
        Data(row) == [row EXCEPT !.atekOrganizationId = atekOrgId,
                                 !.atekContractualManagerId = "",
                                 !.quickbooksCustomerId = qbCustomerId,
                                 !.mappingStatus = "approved",
                                 !.confidenceScore = 100,
                                 !.matchingMethod = "manual",
                                 !.approvedBy = approvedBy,
                                 !.lastModifiedDate = now]
    IN  IF existing # {}
        THEN {IF r.mappingId = The(existing).mappingId THEN Data(r) ELSE r : r \in cm}
        ELSE cm \cup {Data(NewMappingRow(newId))}

createManualMappingInserts(cm, atekOrgId) ==
    {r \in cm : r.atekOrganizationId = atekOrgId} = {}

\* every row deleted, the decided ones included
clearAllMappingsForce(cm) == {}

clearAllMappings(cm) == {r \in cm : r.mappingStatus \notin {"proposed", "needs_review"}}

\* the audit rows clearAllMappings leaves
clearCustomerLog(log) == {l \in log : l.entityType # "customer"}

updateMappingQbCustomer(cm, mappingId, qbCustomerId, now) ==
    {IF r.mappingId = mappingId
     THEN [r EXCEPT !.quickbooksCustomerId = qbCustomerId, !.matchingMethod = "manual",
                    !.confidenceScore = 100, !.lastModifiedDate = now]
     ELSE r : r \in cm}

\* the row createCustomerForInvoice inserts for the invoice, qbCustomerId being the
\* customer just created on the platform
InlineCustomerMapping(cm, invoice, qbCustomerId, newId, now) ==
    cm \cup {CustomerMappingRow(newId, invoice.organizationId,
                                OrElse(invoice.contractualManagerId, ""), qbCustomerId,
                                "approved", 100, "manual", "inline_creation", now)}

-----------------------------------------------------------------------------
(* Handler calls run to completion *)

\* the log written only when the validation row was
StoreAndLogUnlessSkipped(iv, log, invoice, ids, result) ==
    [iv |-> storeValidationResult(iv, invoice, result, ids.validation),
     log |-> IF storeValidationResult(iv, invoice, result, ids.validation) = iv
             THEN log ELSE logValidationAttempt(log, invoice, ids.log),
     ids |-> [ids EXCEPT !.validation = IF StoreInserts(FindValidation(iv, invoice.id))
                                        THEN @ + 1 ELSE @,
                         !.log = @ + 1],
     result |-> result]

\* steps 7 and 8 of validateInvoice: the result stored and logged
StoreAndLog(iv, log, invoice, ids, result) ==
    [iv |-> storeValidationResult(iv, invoice, result, ids.validation),
     log |-> logValidationAttempt(log, invoice, ids.log),
     ids |-> [ids EXCEPT !.validation = IF StoreInserts(FindValidation(iv, invoice.id))
                                        THEN @ + 1 ELSE @,
                         !.log = @ + 1],
     result |-> result]

\* validateInvoice on an invoice the ledger holds: the tables after, and the result
ValidateCall(iv, log, cm, sm, invoice, ids) ==
    StoreAndLog(iv, log, invoice, ids, ValidationResultOf(cm, sm, invoice))

\* what a syncInvoice call that stops before the remote write returns
Stopped(iv, qb, result, existingInQB) ==
    [iv |-> iv, qb |-> qb, result |-> result,
     remote |-> [NoRemote EXCEPT !.found = existingInQB]]

\* the remote write made, as the platform saw it
RemoteOf(existingInQB, writeOk, message) ==
    [kind |-> WriteKind(existingInQB), ok |-> writeOk,
     Id |-> IF existingInQB # {} THEN The(existingInQB).Id ELSE Null,
     SyncToken |-> IF existingInQB # {} THEN The(existingInQB).SyncToken ELSE 0,
     found |-> existingInQB,
     message |-> IF writeOk THEN "" ELSE message]

\* steps 7 and 8 of syncInvoice: the remote write w and what follows it
SyncWrite(iv, qb, invoice, input, existingInQB, writeOk, message, w, now) ==
    [iv |-> AfterWrite(iv, invoice.id, writeOk, w.entity, now),
     qb |-> IF writeOk THEN w.qb ELSE qb,
     result |-> WriteResult(invoice, existingInQB, writeOk, w.entity, input, message),
     remote |-> RemoteOf(existingInQB, writeOk, message)]

\* the remote write issued whatever the build returned
SyncBuiltUnchecked(iv, qb, invoice, build, existingInQB, writeOk, message, newId, now) ==
    SyncWrite(iv, qb, invoice, build.invoice, existingInQB, writeOk, message,
              RemoteWrite(qb, existingInQB, build.invoice, newId), now)

\* step 6 of syncInvoice: the remote invoice built, or the failure returned
SyncBuilt(iv, qb, invoice, build, existingInQB, writeOk, message, newId, now) ==
    IF ~build.success
    THEN Stopped(iv, qb, SyncResult(invoice.id, invoice.invoiceNumber, FALSE, Null,
                                    "missing_sku_mappings", build.error, 0), existingInQB)
    ELSE SyncWrite(iv, qb, invoice, build.invoice, existingInQB, writeOk, message,
                   RemoteWrite(qb, existingInQB, build.invoice, newId), now)

\* steps 3 to 5 of syncInvoice: the customer resolved, or the failure returned
SyncResolved(iv, sm, qb, invoice, cust, existingInQB, writeOk, message, newId, now) ==
    IF ~cust.ok
    THEN Stopped(iv, qb, SyncResult(invoice.id, invoice.invoiceNumber, FALSE, Null,
                                    "no_customer_mapping", cust.error, 0), {})
    ELSE SyncBuilt(iv, qb, invoice, buildQBInvoice(sm, invoice, cust.customerResult),
                   existingInQB, writeOk, message, newId, now)

\* syncInvoice: the tables and the platform after, the result, and the remote write made.
\* existingInQB is what the duplicate lookup returned, writeOk whether the platform
\* accepted the write, message the platform's error otherwise.
SyncCall(iv, cm, sm, ldg, qb, id, qbCustomerId, existingInQB, writeOk, message, newId, now) ==
    IF getInvoice(ldg, id) = {}
    THEN Stopped(iv, qb, SyncResult(id, "", FALSE, Null, Null,
                                    Error("", "Invoice not found in ATEK"), 0), {})
    ELSE SyncResolved(iv, sm, qb, ldg[id],
                      SyncCustomer(getValidationStatus(iv, id), cm, ldg[id], qbCustomerId),
                      existingInQB, writeOk, message, newId, now)

\* what syncBatch holds while it loops: the tables, the platform and its counters
BatchSyncStart(iv, qb, nextQb, conf) ==
    [iv |-> iv, qb |-> qb, nextQb |-> nextQb, confirmed |-> conf, results |-> <<>>,
     successful |-> 0, failed |-> 0, skipped |-> 0]

\* a record is pushed only for a call that did not fail
BatchSyncTurnDropFailed(st, id, c) ==
    [iv |-> c.iv, qb |-> c.qb,
     nextQb |-> IF c.remote.kind = "create" /\ c.remote.ok
                THEN st.nextQb + 1 ELSE st.nextQb,
     confirmed |-> IF c.remote.kind # "none" /\ c.remote.ok
                   THEN st.confirmed \cup {<<id, c.result.quickbooksInvoiceId>>}
                   ELSE st.confirmed,
     results |-> IF c.result.success \/ ~Falsy(c.result.skippedReason)
                 THEN Append(st.results, c.result) ELSE st.results,
     successful |-> IF c.result.success THEN st.successful + 1 ELSE st.successful,
     skipped |-> IF ~c.result.success /\ ~Falsy(c.result.skippedReason)
                 THEN st.skipped + 1 ELSE st.skipped,
     failed |-> IF ~c.result.success /\ Falsy(c.result.skippedReason)
                THEN st.failed + 1 ELSE st.failed]

\* one turn of the loop of syncBatch, c being what syncInvoice did: its record pushed
\* and one counter incremented
BatchSyncTurn(st, id, c) ==
    [iv |-> c.iv, qb |-> c.qb,
     nextQb |-> IF c.remote.kind = "create" /\ c.remote.ok
                THEN st.nextQb + 1 ELSE st.nextQb,
     confirmed |-> IF c.remote.kind # "none" /\ c.remote.ok
                   THEN st.confirmed \cup {<<id, c.result.quickbooksInvoiceId>>}
                   ELSE st.confirmed,
     results |-> Append(st.results, c.result),
     successful |-> IF c.result.success THEN st.successful + 1 ELSE st.successful,
     skipped |-> IF ~c.result.success /\ ~Falsy(c.result.skippedReason)
                 THEN st.skipped + 1 ELSE st.skipped,
     failed |-> IF ~c.result.success /\ Falsy(c.result.skippedReason)
                THEN st.failed + 1 ELSE st.failed]

\* what syncInvoice(id) can do from st, over what the platform can answer
BatchSyncCalls(st, cm, sm, ldg, id, now) ==
    {SyncCall(st.iv, cm, sm, ldg, st.qb, id, Null, existingInQB, writeOk, message,
              QbId(st.nextQb), now) :
        writeOk \in BOOLEAN, message \in {"Rate limit exceeded"},
        existingInQB \in (IF id \in DOMAIN ldg
                          THEN checkDuplicateInQB(st.qb, ldg[id].invoiceNumber)
                          ELSE {{}})}

\* the loop of syncBatch over the ids left: the states it can end in
RECURSIVE syncBatchLoop(_, _, _, _, _, _)
syncBatchLoop(st, cm, sm, ldg, invoiceIds, now) ==
    IF invoiceIds = <<>> THEN {st}
    ELSE UNION {syncBatchLoop(BatchSyncTurn(st, Head(invoiceIds), c), cm, sm, ldg,
                              Tail(invoiceIds), now) :
                   c \in BatchSyncCalls(st, cm, sm, ldg, Head(invoiceIds), now)}

\* what syncBatch returns
BatchSyncResult(invoiceIds, st) ==
    [ids |-> invoiceIds, total |-> Len(invoiceIds), successful |-> st.successful,
     failed |-> st.failed, skipped |-> st.skipped, results |-> st.results]

\* one turn of the loop of validateBatch, c being what validateInvoice did
BatchValidateTurn(st, c) ==
    [iv |-> c.iv, log |-> c.log, ids |-> c.ids, results |-> Append(st.results, c.result)]

\* the loop of validateBatch over the ids left; a validateInvoice that throws is logged
\* to the console and pushes nothing
RECURSIVE validateBatchLoop(_, _, _, _, _)
validateBatchLoop(st, cm, sm, ldg, invoiceIds) ==
    IF invoiceIds = <<>> THEN st
    ELSE validateBatchLoop(
            IF getInvoice(ldg, Head(invoiceIds)) = {} THEN st
            ELSE BatchValidateTurn(st, ValidateCall(st.iv, st.log, cm, sm,
                                                     ldg[Head(invoiceIds)], st.ids)),
            cm, sm, ldg, Tail(invoiceIds))

CountStatus(results, status) ==
    Cardinality({k \in 1..Len(results) : results[k].status = status})

\* what validateBatch returns
BatchValidationResult(invoiceIds, results) ==
    [ids |-> invoiceIds, total |-> Len(results), ready |-> CountStatus(results, "ready"),
     blocked |-> CountStatus(results, "blocked"),
     pending |-> CountStatus(results, "pending"), results |-> results]

\* the ledger's find with the status filter, its sort and its limit: the first limit
\* sync-eligible invoices of the ledger, in the order of the sort
listInvoicesForSync(ldg, limit) ==
    SubSeq(SelectSeq(LedgerOrder, LAMBDA i : i \in DOMAIN ldg
                        /\ ldg[i].status \in {"sent", "paid", "partial", "overdue"}),
           1, IF limit < Len(SelectSeq(LedgerOrder, LAMBDA i : i \in DOMAIN ldg
                                /\ ldg[i].status \in {"sent", "paid", "partial", "overdue"}))
              THEN limit
              ELSE Len(SelectSeq(LedgerOrder, LAMBDA i : i \in DOMAIN ldg
                                /\ ldg[i].status \in {"sent", "paid", "partial", "overdue"})))

\* every fetched invoice kept, validated before or not
unvalidatedInvoicesAll(iv, invoices) == invoices

\* the fetched invoices whose id is not in the validation table
unvalidatedInvoices(iv, invoices) ==
    SelectSeq(invoices, LAMBDA i : \A v \in iv : v.atekInvoiceId # i)

-----------------------------------------------------------------------------
(* State *)

Procs == {"p1", "p2"}

\* the ids callers pass: the ledger's invoices and one id the ledger does not hold
CallIds == InvoiceIds \cup {"gone"}

LineItem(skuId, skuCode, quantity, unitPrice, amount) ==
    [skuId |-> skuId, skuCode |-> skuCode, quantity |-> quantity,
     unitPrice |-> unitPrice, amount |-> amount]

Invoice(id, number, status, managerId, lineItems, total) ==
    [id |-> id, invoiceNumber |-> number, organizationId |-> "o1",
     contractualManagerId |-> managerId, status |-> status,
     lineItems |-> lineItems, totalAmount |-> total]

\* the ledgers of the model: one invoice, sync-eligible or draft, with or without a number
Ledgers ==
    {[i \in InvoiceIds |->
        Invoice(i, number, status, Null, <<LineItem("s1", "A", 2, 5, 10)>>, 10)] :
     number \in {"INV-1", ""}, status \in {"sent", "draft"}}

SkuMappingRow(mappingId, skuId, skuCode, itemId, status) ==
    [mappingId |-> mappingId, atekSkuId |-> skuId, atekSkuCode |-> skuCode,
     quickbooksItemId |-> itemId, mappingStatus |-> status]

\* customer-mapping tables a matching run and a review leave for organization o1
MatchedCustomerTables ==
    {{}, {CustomerMappingRow(1, "o1", "", "c1", "proposed", 100, "email_exact", Null, 0)},
         {CustomerMappingRow(1, "o1", "", "c1", "approved", 100, "email_exact", "user", 0)}}

\* SKU-mapping tables the approval workflow leaves for SKU A
ApprovedSkuTables ==
    {{}, {SkuMappingRow(1, "s1", "A", "item1", "approved")},
         {SkuMappingRow(1, "s1", "A", "item1", "proposed")}}

NoCall == [op |-> "none", id |-> "", threw |-> FALSE, before |-> {}, qbBefore |-> {},
           result |-> NoError, remote |-> NoRemote]

\* a call record; before is the table the call works on and qbBefore the platform, both
\* as they were at the call
Call(op, id, threw, before, qbBefore, result, remote) ==
    [op |-> op, id |-> id, threw |-> threw, before |-> before, qbBefore |-> qbBefore,
     result |-> result, remote |-> remote]

FirstIds == [mapping |-> 2, validation |-> 1, log |-> 1, qb |-> 1, customer |-> 1]

Init ==
    /\ ledger \in Ledgers
    /\ customerMapping \in MatchedCustomerTables
    /\ skuMapping \in ApprovedSkuTables
    /\ invoiceValidation = {}
    /\ matchingAlgorithmLog = {}
    /\ qbInvoices \in {{}, {PreExistingQbInvoice}}
    /\ confirmed = {}
    /\ nextId = FirstIds
    /\ clock = 0
    /\ lastCall = NoCall
    /\ pc = [p \in Procs |-> "idle"]
    /\ loc = [p \in Procs |-> NoCall]

-----------------------------------------------------------------------------
(* Sequential calls: each handler runs to completion *)

Tick == clock < MaxCalls /\ clock' = clock + 1

ValidateInvoice(id) ==
    /\ Tick
    /\ IF getInvoice(ledger, id) = {}
       THEN /\ lastCall' = Call("validateInvoice", id, TRUE, invoiceValidation,
                                qbInvoices, NoError, NoRemote)
            /\ UNCHANGED <<invoiceValidation, matchingAlgorithmLog, nextId>>
       ELSE \E c \in {ValidateCall(invoiceValidation, matchingAlgorithmLog,
                                   customerMapping, skuMapping, ledger[id], nextId)} :
                /\ invoiceValidation' = c.iv
                /\ matchingAlgorithmLog' = c.log
                /\ nextId' = c.ids
                /\ lastCall' = Call("validateInvoice", id, FALSE, invoiceValidation,
                                    qbInvoices, c.result, NoRemote)
    /\ UNCHANGED <<ledger, customerMapping, skuMapping, qbInvoices, confirmed, pc, loc>>

SyncInvoice(id, qbCustomerId) ==
    /\ Tick
    /\ \E writeOk \in BOOLEAN, message \in UpstreamErrors,
          existingInQB \in (IF id \in DOMAIN ledger
                            THEN checkDuplicateInQB(qbInvoices, ledger[id].invoiceNumber)
                            ELSE {{}}) :
        \E c \in {SyncCall(invoiceValidation, customerMapping, skuMapping, ledger,
                           qbInvoices, id, qbCustomerId, existingInQB, writeOk, message,
                           QbId(nextId.qb), clock + 1)} :
            /\ invoiceValidation' = c.iv
            /\ qbInvoices' = c.qb
            /\ nextId' = [nextId EXCEPT !.qb = IF c.remote.kind = "create" /\ c.remote.ok
                                               THEN @ + 1 ELSE @]
            /\ lastCall' = Call("syncInvoice", id, FALSE, invoiceValidation,
                                qbInvoices, c.result, c.remote)
            /\ confirmed' = IF c.remote.kind # "none" /\ c.remote.ok
                             THEN confirmed \cup {<<id, c.result.quickbooksInvoiceId>>}
                             ELSE confirmed
    /\ UNCHANGED <<ledger, customerMapping, skuMapping, matchingAlgorithmLog, pc, loc>>

\* invoiceValidationRouter.markAsSynced
RouterMarkAsSynced(id, quickbooksInvoiceId) ==
    /\ Tick
    /\ invoiceValidation' = markAsSynced(invoiceValidation, id, quickbooksInvoiceId, clock + 1)
    /\ lastCall' = Call("markAsSynced", id, FALSE, invoiceValidation, qbInvoices,
                       NoError, NoRemote)
    /\ UNCHANGED <<ledger, customerMapping, skuMapping, matchingAlgorithmLog, qbInvoices,
                   confirmed, nextId, pc, loc>>

ApproveForSync(id) ==
    /\ Tick
    /\ invoiceValidation' = approveForSync(invoiceValidation, id, "user")
    /\ lastCall' = Call("approveForSync", id, FALSE, invoiceValidation, qbInvoices,
                       NoError, NoRemote)
    /\ UNCHANGED <<ledger, customerMapping, skuMapping, matchingAlgorithmLog, qbInvoices,
                   confirmed, nextId, pc, loc>>

ClearValidation(id) ==
    /\ Tick
    /\ invoiceValidation' = clearValidation(invoiceValidation, id)
    /\ lastCall' = Call("clearValidation", id, FALSE, invoiceValidation, qbInvoices,
                       NoError, NoRemote)
    /\ UNCHANGED <<ledger, customerMapping, skuMapping, matchingAlgorithmLog, qbInvoices,
                   confirmed, nextId, pc, loc>>

\* invoiceValidationRouter.clearAll
ClearAllValidations ==
    /\ Tick
    /\ invoiceValidation' = clearAllValidations(invoiceValidation)
    /\ matchingAlgorithmLog' = clearInvoiceLog(matchingAlgorithmLog)
    /\ lastCall' = [Call("clearAllValidations", "", FALSE, invoiceValidation, qbInvoices,
                         NoError, NoRemote)
                    EXCEPT !.result = [deleted |-> clearAllValidationsDeleted(invoiceValidation)]]
    /\ UNCHANGED <<ledger, customerMapping, skuMapping, qbInvoices, confirmed, nextId,
                   pc, loc>>

ApproveMapping(mappingId) ==
    /\ Tick
    /\ customerMapping' = approveMapping(customerMapping, mappingId, "user", clock + 1)
    /\ lastCall' = Call("approveMapping", "", FALSE, customerMapping, qbInvoices,
                       NoError, NoRemote)
    /\ UNCHANGED <<ledger, skuMapping, invoiceValidation, matchingAlgorithmLog, qbInvoices,
                   confirmed, nextId, pc, loc>>

RejectMapping(mappingId) ==
    /\ Tick
    /\ customerMapping' = rejectMapping(customerMapping, mappingId, clock + 1)
    /\ lastCall' = Call("rejectMapping", "", FALSE, customerMapping, qbInvoices,
                       NoError, NoRemote)
    /\ UNCHANGED <<ledger, skuMapping, invoiceValidation, matchingAlgorithmLog, qbInvoices,
                   confirmed, nextId, pc, loc>>

Next ==
    \/ \E id \in CallIds : ValidateInvoice(id)
    \/ \E id \in CallIds, qbCustomerId \in {Null} \cup QbCustomerIds :
          SyncInvoice(id, qbCustomerId)
    \/ \E id \in InvoiceIds, q \in {"q1", "manual"} : RouterMarkAsSynced(id, q)
    \/ \E id \in InvoiceIds : ApproveForSync(id)
    \/ \E id \in InvoiceIds : ClearValidation(id)
    \/ ClearAllValidations
    \/ \E r \in customerMapping : ApproveMapping(r.mappingId)
    \/ \E r \in customerMapping : RejectMapping(r.mappingId)

Spec == Init /\ [][Next]_vars

-----------------------------------------------------------------------------
(* The customer-mapping workflow: each handler runs to completion *)

\* listOrganizations: the organizations of the ledger, in the order returned
Organizations == <<"o1", "o2">>

\* the ids the platform hands out to new customers, in order
QbCustomerNames == <<"c2", "c3", "c4", "c5", "c6", "c7", "c8", "c9">>

\* ledgers whose invoice has a contractual manager or none
MappingLedgers ==
    {[i \in InvoiceIds |->
        Invoice(i, "INV-1", "sent", manager, <<LineItem("s1", "A", 2, 5, 10)>>, 10)] :
     manager \in {Null} \cup ManagerIds}

InitMapping ==
    /\ ledger \in MappingLedgers
    /\ customerMapping = {}
    /\ skuMapping = {SkuMappingRow(1, "s1", "A", "item1", "approved")}
    /\ invoiceValidation = {}
    /\ matchingAlgorithmLog = {}
    /\ qbInvoices = {}
    /\ confirmed = {}
    /\ nextId = [FirstIds EXCEPT !.mapping = 1]
    /\ clock = 0
    /\ lastCall = NoCall
    /\ pc = [p \in Procs |-> "idle"]
    /\ loc = [p \in Procs |-> NoCall]

MappingCall(op, id, threw, before) ==
    Call(op, id, threw, before, qbInvoices, NoError, NoRemote)

RunCustomerMatching ==
    /\ Tick
    /\ \E results \in [OrgIds -> MatchResults] :
        \E c \in {runCustomerMatching(customerMapping, matchingAlgorithmLog, ledger,
                                      Organizations, results, nextId, clock + 1)} :
            /\ customerMapping' = c.cm
            /\ matchingAlgorithmLog' = c.log
            /\ nextId' = c.ids
    /\ lastCall' = MappingCall("runCustomerMatching", "", FALSE, customerMapping)
    /\ UNCHANGED <<ledger, skuMapping, invoiceValidation, qbInvoices, confirmed, pc, loc>>

\* atekOrgId may be an organization the ledger does not hold: the handler throws
CreateManualMapping(atekOrgId, qbCustomerId) ==
    /\ Tick
    /\ IF atekOrgId \notin OrgIds
       THEN /\ lastCall' = MappingCall("createManualMapping", atekOrgId, TRUE,
                                       customerMapping)
            /\ UNCHANGED <<customerMapping, nextId>>
       ELSE /\ customerMapping' = createManualMapping(customerMapping, atekOrgId,
                                      qbCustomerId, "user", nextId.mapping, clock + 1)
            /\ nextId' = [nextId EXCEPT !.mapping =
                              IF createManualMappingInserts(customerMapping, atekOrgId)
                              THEN @ + 1 ELSE @]
            /\ lastCall' = MappingCall("createManualMapping", atekOrgId, FALSE,
                                       customerMapping)
    /\ UNCHANGED <<ledger, skuMapping, invoiceValidation, matchingAlgorithmLog, qbInvoices,
                   confirmed, pc, loc>>

\* invoiceSyncRouter.createCustomerForInvoice: the customer is created on the platform
\* (created: whether the platform accepted it), its mapping inserted, the invoice
\* validated again
CreateCustomerForInvoice(id, created) ==
    /\ Tick
    /\ IF getInvoice(ledger, id) = {} \/ ~created
       THEN /\ lastCall' = MappingCall("createCustomerForInvoice", id, TRUE,
                                       customerMapping)
            /\ UNCHANGED <<customerMapping, invoiceValidation, matchingAlgorithmLog, nextId>>
       ELSE \E cm \in {InlineCustomerMapping(customerMapping, ledger[id],
                                             QbCustomerNames[nextId.customer],
                                             nextId.mapping, clock + 1)} :
            \E c \in {ValidateCall(invoiceValidation, matchingAlgorithmLog, cm,
                                   skuMapping, ledger[id],
                                   [nextId EXCEPT !.mapping = @ + 1, !.customer = @ + 1])} :
                /\ customerMapping' = cm
                /\ invoiceValidation' = c.iv
                /\ matchingAlgorithmLog' = c.log
                /\ nextId' = c.ids
                /\ lastCall' = [MappingCall("createCustomerForInvoice", id, FALSE,
                                            customerMapping) EXCEPT !.result = c.result]
    /\ UNCHANGED <<ledger, skuMapping, qbInvoices, confirmed, pc, loc>>

UpdateMappingQbCustomer(mappingId, qbCustomerId) ==
    /\ Tick
    /\ customerMapping' = updateMappingQbCustomer(customerMapping, mappingId,
                                                  qbCustomerId, clock + 1)
    /\ lastCall' = MappingCall("updateMappingQbCustomer", "", FALSE, customerMapping)
    /\ UNCHANGED <<ledger, skuMapping, invoiceValidation, matchingAlgorithmLog, qbInvoices,
                   confirmed, nextId, pc, loc>>

ClearAllMappings ==
    /\ Tick
    /\ customerMapping' = clearAllMappings(customerMapping)
    /\ matchingAlgorithmLog' = clearCustomerLog(matchingAlgorithmLog)
    /\ lastCall' = MappingCall("clearAllMappings", "", FALSE, customerMapping)
    /\ UNCHANGED <<ledger, skuMapping, invoiceValidation, qbInvoices, confirmed, nextId,
                   pc, loc>>

NextMapping ==
    \/ RunCustomerMatching
    \/ \E o \in OrgIds \cup {"gone"}, c \in QbCustomerIds : CreateManualMapping(o, c)
    \/ \E id \in CallIds, created \in BOOLEAN : CreateCustomerForInvoice(id, created)
    \/ \E r \in customerMapping : ApproveMapping(r.mappingId)
    \/ \E r \in customerMapping : RejectMapping(r.mappingId)
    \/ \E r \in customerMapping, c \in QbCustomerIds :
          UpdateMappingQbCustomer(r.mappingId, c)
    \/ ClearAllMappings

SpecMapping == InitMapping /\ [][NextMapping]_vars

-----------------------------------------------------------------------------
(* The checks of validation and sync, over the invoices and mapping tables they meet *)

ItemA == LineItem("s1", "A", 2, 5, 10)
ItemB == LineItem("s2", "B", 1, 10, 10)
\* a line item whose SKU has no code
ItemN == LineItem("s3", Null, 1, 10, 10)

LineItemLists ==
    {<<>>, <<ItemA>>, <<ItemA, ItemB>>, <<ItemA, ItemA>>, <<ItemA, ItemN>>, <<ItemB, ItemN>>}

\* the SKU-mapping rows the SKU workflow leaves for A: proposed, approved, awaiting
\* creation on the platform, approved without a target item
SkuRowsA ==
    {{}} \cup {{SkuMappingRow(1, "s1", "A", item, status)} :
                 item \in {"item1"}, status \in {"approved", "proposed"}}
         \cup {{SkuMappingRow(1, "s1", "A", Null, status)} :
                 status \in {"approved", "needs_creation"}}

SkuTables ==
    {a \cup b \cup n :
        a \in SkuRowsA,
        b \in {{}, {SkuMappingRow(2, "s2", "B", "item2", "approved")}},
        n \in {{}, {SkuMappingRow(3, "s3", Null, "item3", "approved")}}}

\* customer-mapping tables of organization o1: up to two rows, for the invoice's manager,
\* for no manager, or for another manager of the organization
CustomerRows(mappingId) ==
    {CustomerMappingRow(mappingId, "o1", manager, qbCustomerId, status, 100,
                        "email_exact", Null, 0) :
        manager \in {"", "m1", "m2"}, qbCustomerId \in {"c1", Null},
        status \in {"approved", "proposed"}}

CustomerTables ==
    {{}} \cup {{r} : r \in CustomerRows(1)}
         \cup {{r1, r2} : r1 \in CustomerRows(1), r2 \in CustomerRows(2)}

\* invoices that differ in what the customer check reads
CustomerLedgers ==
    {[i \in InvoiceIds |->
        [Invoice(i, "INV-1", "sent", manager, <<ItemA>>, 10)
            EXCEPT !.organizationId = org]] :
     org \in {"o1", ""}, manager \in {Null, "m1"}}

\* invoices that differ in what the SKU, status and data checks read
ContentLedgers ==
    {[i \in InvoiceIds |-> Invoice(i, number, status, Null, lineItems, total)] :
     number \in {"INV-1", ""}, status \in {"sent", "draft"},
     lineItems \in LineItemLists, total \in {10, 0}}

InitChecks ==
    /\ \/ /\ ledger \in CustomerLedgers
          /\ customerMapping \in CustomerTables
          /\ skuMapping = {SkuMappingRow(1, "s1", "A", "item1", "approved")}
       \/ /\ ledger \in ContentLedgers
          /\ customerMapping \in
                {{}, {CustomerMappingRow(1, "o1", "", "c1", "approved", 100,
                                         "email_exact", "user", 0)}}
          /\ skuMapping \in SkuTables
    /\ invoiceValidation = {}
    /\ matchingAlgorithmLog = {}
    /\ qbInvoices = {}
    /\ confirmed = {}
    /\ nextId = [FirstIds EXCEPT !.mapping = 3]
    /\ clock = 0
    /\ lastCall = NoCall
    /\ pc = [p \in Procs |-> "idle"]
    /\ loc = [p \in Procs |-> NoCall]

NextChecks ==
    /\ clock < MaxChecks
    /\ \/ \E id \in CallIds : ValidateInvoice(id)
       \/ \E id \in CallIds : SyncInvoice(id, Null)

SpecChecks == InitChecks /\ [][NextChecks]_vars

-----------------------------------------------------------------------------
(* Batches: syncBatch and validateBatch over a ledger of three invoices *)

BatchInvoiceNumbers == [inv1 |-> "INV-1", inv2 |-> "INV-2", inv3 |-> ""]
BatchLineItems == [inv1 |-> <<ItemA>>, inv2 |-> <<ItemA, ItemB>>, inv3 |-> <<ItemB>>]

BatchLedger ==
    [i \in DOMAIN BatchInvoiceNumbers |->
        Invoice(i, BatchInvoiceNumbers[i], "sent", Null, BatchLineItems[i], 10)]

\* the ledger, its second invoice sent or still a draft
BatchLedgers == {BatchLedger, [BatchLedger EXCEPT !["inv2"].status = "draft"]}

\* the id lists callers pass: ledger invoices and an id the ledger does not hold
BatchIdLists ==
    UNION {[1..n -> DOMAIN BatchInvoiceNumbers \cup {"gone"}] : n \in 0..MaxBatch}

InitBatch ==
    /\ ledger \in BatchLedgers
    /\ customerMapping \in MatchedCustomerTables
    /\ skuMapping \in
          {{SkuMappingRow(1, "s1", "A", "item1", "approved")} \cup b :
              b \in {{}, {SkuMappingRow(2, "s2", "B", "item2", "approved")}}}
    /\ invoiceValidation = {}
    /\ matchingAlgorithmLog = {}
    /\ qbInvoices = {}
    /\ confirmed = {}
    /\ nextId = FirstIds
    /\ clock = 0
    /\ lastCall = NoCall
    /\ pc = [p \in Procs |-> "idle"]
    /\ loc = [p \in Procs |-> NoCall]

SyncBatch(invoiceIds) ==
    /\ clock' = clock + Len(invoiceIds)
    /\ \E st \in syncBatchLoop(BatchSyncStart(invoiceValidation, qbInvoices, nextId.qb,
                                              confirmed),
                               customerMapping, skuMapping, ledger, invoiceIds, clock + 1) :
          /\ invoiceValidation' = st.iv
          /\ qbInvoices' = st.qb
          /\ nextId' = [nextId EXCEPT !.qb = st.nextQb]
          /\ confirmed' = st.confirmed
          /\ lastCall' = Call("syncBatch", "", FALSE, invoiceValidation, qbInvoices,
                              BatchSyncResult(invoiceIds, st), NoRemote)
    /\ UNCHANGED <<ledger, customerMapping, skuMapping, matchingAlgorithmLog, pc, loc>>

ValidateBatch(invoiceIds) ==
    /\ clock' = clock + Len(invoiceIds)
    /\ \E st \in {validateBatchLoop([iv |-> invoiceValidation, log |-> matchingAlgorithmLog,
                                     ids |-> nextId, results |-> <<>>],
                                    customerMapping, skuMapping, ledger, invoiceIds)} :
          /\ invoiceValidation' = st.iv
          /\ matchingAlgorithmLog' = st.log
          /\ nextId' = st.ids
          /\ lastCall' = Call("validateBatch", "", FALSE, invoiceValidation, qbInvoices,
                              BatchValidationResult(invoiceIds, st.results), NoRemote)
    /\ UNCHANGED <<ledger, customerMapping, skuMapping, qbInvoices, confirmed, pc, loc>>

\* validateAllPending with a row limit: validateBatch on the unvalidated invoices fetched
ValidateAllPending(limit) ==
    \E invoiceIds \in {unvalidatedInvoices(invoiceValidation,
                                            listInvoicesForSync(ledger, limit))} :
        /\ clock + Len(invoiceIds) <= MaxBatch
        /\ clock' = clock + Len(invoiceIds)
        /\ \E st \in {validateBatchLoop([iv |-> invoiceValidation,
                                         log |-> matchingAlgorithmLog,
                                         ids |-> nextId, results |-> <<>>],
                                        customerMapping, skuMapping, ledger, invoiceIds)} :
              /\ invoiceValidation' = st.iv
              /\ matchingAlgorithmLog' = st.log
              /\ nextId' = st.ids
              /\ lastCall' = Call("validateAllPending", "", FALSE, invoiceValidation,
                                  qbInvoices,
                                  [limit |-> limit,
                                   batch |-> BatchValidationResult(invoiceIds, st.results)],
                                  NoRemote)
        /\ UNCHANGED <<ledger, customerMapping, skuMapping, qbInvoices, confirmed, pc, loc>>

\* the clock counts the invoices handled
NextBatch ==
    \/ \E invoiceIds \in {l \in BatchIdLists : clock + Len(l) <= MaxBatch} :
          \/ SyncBatch(invoiceIds)
          \/ ValidateBatch(invoiceIds)
    \/ \E limit \in 1..Len(LedgerOrder) : ValidateAllPending(limit)

SpecBatch == InitBatch /\ [][NextBatch]_vars

-----------------------------------------------------------------------------
(* validateAllPending called again and again with one limit, the ledger unchanged *)

\* the ledger of three invoices, each sent or still a draft
PendingLedgers ==
    {[i \in DOMAIN BatchLedger |->
        [BatchLedger[i] EXCEPT !.status = IF i \in drafts THEN "draft" ELSE "sent"]] :
     drafts \in SUBSET DOMAIN BatchLedger}

\* the limit every call passes is kept with the caller
InitPending ==
    /\ ledger \in PendingLedgers
    /\ customerMapping \in MatchedCustomerTables
    /\ skuMapping \in
          {{SkuMappingRow(1, "s1", "A", "item1", "approved")} \cup b :
              b \in {{}, {SkuMappingRow(2, "s2", "B", "item2", "approved")}}}
    /\ invoiceValidation = {}
    /\ matchingAlgorithmLog = {}
    /\ qbInvoices = {}
    /\ confirmed = {}
    /\ nextId = FirstIds
    /\ clock = 0
    /\ lastCall = NoCall
    /\ pc = [p \in Procs |-> "idle"]
    /\ loc \in {[p \in Procs |-> [limit |-> n]] : n \in 1..Len(LedgerOrder)}

NextPending == ValidateAllPending(loc["p1"].limit)

\* the caller keeps calling: a call that would change the state is made
SpecPending == InitPending /\ [][NextPending]_vars /\ WF_vars(NextPending)

-----------------------------------------------------------------------------
(* Two handler calls on one invoice, interleaved at their awaits *)

\* what a call holds between its steps; {} is a value not yet obtained
Local(op, id) ==
    [op |-> op, id |-> id, result |-> {}, existing |-> {}, customer |-> {},
     found |-> {}, input |-> {}, entity |-> {}, out |-> {}]

\* the table a first validation of the ledger's invoices leaves
RECURSIVE ValidatedAll(_, _, _, _, _)
ValidatedAll(ids, cm, sm, ldg, c) ==
    IF ids = {} THEN c
    ELSE ValidatedAll(ids \ {The(ids)}, cm, sm, ldg,
                      ValidateCall(c.iv, c.log, cm, sm, ldg[The(ids)], c.ids))

InitConc ==
    /\ ledger \in Ledgers
    /\ customerMapping \in MatchedCustomerTables
    /\ skuMapping \in ApprovedSkuTables
    /\ qbInvoices \in {{}, {PreExistingQbInvoice}}
    /\ \E c \in {[iv |-> {}, log |-> {}, ids |-> FirstIds],
                  ValidatedAll(InvoiceIds, customerMapping, skuMapping, ledger,
                               [iv |-> {}, log |-> {}, ids |-> FirstIds])} :
            /\ invoiceValidation = c.iv
            /\ matchingAlgorithmLog = c.log
            /\ nextId = c.ids
    /\ confirmed = {}
    /\ clock = 0
    /\ lastCall = NoCall
    /\ pc = [p \in Procs |-> "start"]
    /\ loc \in [Procs -> {Local(op, id) : op \in {"validateInvoice", "syncInvoice"},
                                          id \in InvoiceIds}]

At(p, op, label) == pc[p] = label /\ loc[p].op = op

Goto(p, label, local) ==
    /\ pc' = [pc EXCEPT ![p] = label]
    /\ loc' = [loc EXCEPT ![p] = local]

\* validateInvoice, steps 1 to 5: the reads and the verdict
ValidateCheck(p) ==
    /\ At(p, "validateInvoice", "start")
    /\ Goto(p, "store_find",
            [loc[p] EXCEPT !.result = {ValidationResultOf(customerMapping, skuMapping,
                                                          ledger[loc[p].id])}])
    /\ UNCHANGED <<ledger, customerMapping, skuMapping, invoiceValidation,
                   matchingAlgorithmLog, qbInvoices, confirmed, nextId, clock, lastCall>>

\* storeValidationResult: the findFirst
ValidateFind(p) ==
    /\ At(p, "validateInvoice", "store_find")
    /\ Goto(p, "store_write",
            [loc[p] EXCEPT !.existing = FindValidation(invoiceValidation, loc[p].id)])
    /\ UNCHANGED <<ledger, customerMapping, skuMapping, invoiceValidation,
                   matchingAlgorithmLog, qbInvoices, confirmed, nextId, clock, lastCall>>

\* storeValidationResult: the update or insert decided on the row found
ValidateWrite(p) ==
    /\ At(p, "validateInvoice", "store_write")
    /\ invoiceValidation' = StoreWrite(invoiceValidation, loc[p].existing,
                                       ledger[loc[p].id], The(loc[p].result),
                                       nextId.validation)
    /\ nextId' = [nextId EXCEPT !.validation =
                      IF StoreInserts(loc[p].existing) THEN @ + 1 ELSE @]
    /\ Goto(p, "log", loc[p])
    /\ UNCHANGED <<ledger, customerMapping, skuMapping, matchingAlgorithmLog, qbInvoices,
                   confirmed, clock, lastCall>>

ValidateLog(p) ==
    /\ At(p, "validateInvoice", "log")
    /\ matchingAlgorithmLog' = logValidationAttempt(matchingAlgorithmLog,
                                                    ledger[loc[p].id], nextId.log)
    /\ nextId' = [nextId EXCEPT !.log = @ + 1]
    /\ Goto(p, "done", [loc[p] EXCEPT !.out = loc[p].result])
    /\ UNCHANGED <<ledger, customerMapping, skuMapping, invoiceValidation, qbInvoices,
                   confirmed, clock, lastCall>>

\* syncInvoice, steps 1 to 4: the validation row, the invoice and its customer
SyncRead(p) ==
    /\ At(p, "syncInvoice", "start")
    /\ \E invoice \in {ledger[loc[p].id]} :
       \E cust \in {SyncCustomer(getValidationStatus(invoiceValidation, loc[p].id),
                                 customerMapping, invoice, Null)} :
           IF cust.ok
           THEN Goto(p, "lookup", [loc[p] EXCEPT !.customer = {cust.customerResult}])
           ELSE Goto(p, "done",
                     [loc[p] EXCEPT !.out = {SyncResult(invoice.id, invoice.invoiceNumber,
                                                FALSE, Null, "no_customer_mapping",
                                                cust.error, 0)}])
    /\ UNCHANGED <<ledger, customerMapping, skuMapping, invoiceValidation,
                   matchingAlgorithmLog, qbInvoices, confirmed, nextId, clock, lastCall>>

\* syncInvoice, steps 5 and 6: the duplicate lookup and the build
SyncLookup(p) ==
    /\ At(p, "syncInvoice", "lookup")
    /\ \E invoice \in {ledger[loc[p].id]} :
       \E build \in {buildQBInvoice(skuMapping, invoice, The(loc[p].customer))} :
           \E existingInQB \in checkDuplicateInQB(qbInvoices, invoice.invoiceNumber) :
              IF build.success
              THEN Goto(p, "write", [loc[p] EXCEPT !.found = existingInQB,
                                                   !.input = {build.invoice}])
              ELSE Goto(p, "done",
                        [loc[p] EXCEPT !.out = {SyncResult(invoice.id,
                                                   invoice.invoiceNumber, FALSE, Null,
                                                   "missing_sku_mappings", build.error, 0)}])
    /\ UNCHANGED <<ledger, customerMapping, skuMapping, invoiceValidation,
                   matchingAlgorithmLog, qbInvoices, confirmed, nextId, clock, lastCall>>

\* syncInvoice, step 7: the remote create or update
SyncRemoteWrite(p) ==
    /\ At(p, "syncInvoice", "write")
    /\ \E writeOk \in BOOLEAN, message \in UpstreamErrors :
        \E invoice \in {ledger[loc[p].id]}, input \in loc[p].input :
        \E w \in {RemoteWrite(qbInvoices, loc[p].found, input, QbId(nextId.qb))} :
            IF writeOk
            THEN /\ qbInvoices' = w.qb
                 /\ nextId' = [nextId EXCEPT !.qb = IF WriteKind(loc[p].found) = "create"
                                                    THEN @ + 1 ELSE @]
                 /\ confirmed' = confirmed \cup {<<invoice.id, w.entity.Id>>}
                 /\ Goto(p, "mark", [loc[p] EXCEPT !.entity = {w.entity}])
            ELSE /\ UNCHANGED <<qbInvoices, nextId, confirmed>>
                 /\ Goto(p, "done",
                         [loc[p] EXCEPT !.out = {WriteResult(invoice, loc[p].found, FALSE,
                                                             w.entity, input, message)}])
    /\ UNCHANGED <<ledger, customerMapping, skuMapping, invoiceValidation,
                   matchingAlgorithmLog, clock, lastCall>>

\* syncInvoice, step 8: markAsSynced and the result
SyncMark(p) ==
    /\ At(p, "syncInvoice", "mark")
    /\ clock' = clock + 1
    /\ invoiceValidation' = AfterWrite(invoiceValidation, loc[p].id, TRUE,
                                       The(loc[p].entity), clock + 1)
    /\ Goto(p, "done",
            [loc[p] EXCEPT !.out = {WriteResult(ledger[loc[p].id], loc[p].found, TRUE,
                                                The(loc[p].entity), The(loc[p].input),
                                                "")}])
    /\ UNCHANGED <<ledger, customerMapping, skuMapping, matchingAlgorithmLog, qbInvoices,
                   confirmed, nextId, lastCall>>

NextConc ==
    \E p \in Procs :
        \/ ValidateCheck(p)
        \/ ValidateFind(p)
        \/ ValidateWrite(p)
        \/ ValidateLog(p)
        \/ SyncRead(p)
        \/ SyncLookup(p)
        \/ SyncRemoteWrite(p)
        \/ SyncMark(p)

SpecConc == InitConc /\ [][NextConc]_vars

-----------------------------------------------------------------------------
(* withRetry (lib/quickbooks): the retry loop around one platform call *)

DefaultMaxRetries == 3
DefaultInitialDelayMs == 1000
DefaultMaxDelayMs == 30000

\* a thrown value: an Error with its message, cut into segments so that every occurrence
\* of a searched word is a segment, or a value that is not an Error.  status is the HTTP
\* status of the response behind it (0 without response) and class what the failure is.
Thrown(isError, message, status, class) ==
    [isError |-> isError, message |-> message, status |-> status, class |-> class]

\* what a platform call can throw: qbApiCall's `QuickBooks API error: <status> - <text>`,
\* errors of the transport and of the SDK client, and a thrown string
ThrownValues ==
    {Thrown(TRUE, <<"QuickBooks API error: ", "429", " - ", "Too Many Requests">>,
            429, "rate_limit"),
     Thrown(TRUE, <<"QuickBooks API error: ", "503", " - ", "Service Unavailable">>,
            503, "server"),
     Thrown(TRUE, <<"QuickBooks API error: ", "500", " - ", "Internal Server Error">>,
            500, "server"),
     Thrown(TRUE, <<"QuickBooks API error: ", "400", " - ", "Invalid amount 1", "429",
                    ".50">>, 400, "validation"),
     Thrown(TRUE, <<"QuickBooks API error: ", "400", " - ", "Duplicate DocNumber">>,
            400, "business"),
     Thrown(TRUE, <<"Connect ", "Timeout", " Error">>, 0, "timeout"),
     Thrown(TRUE, <<"Rate limit", " exceeded">>, 429, "rate_limit"),
     Thrown(FALSE, <<"aborted">>, 0, "business")}

\* String.prototype.toLowerCase on a segment
toLowerCase(segment) ==
    CASE segment = "Timeout" -> "timeout"
      [] segment = "Rate limit" -> "rate limit"
      [] segment = "Too Many Requests" -> "too many requests"
      [] segment = "Service Unavailable" -> "service unavailable"
      [] segment = "Internal Server Error" -> "internal server error"
      [] segment = "QuickBooks API error: " -> "quickbooks api error: "
      [] segment = "Invalid amount 1" -> "invalid amount 1"
      [] segment = "Duplicate DocNumber" -> "duplicate docnumber"
      [] segment = "Connect " -> "connect "
      [] segment = " Error" -> " error"
      [] OTHER -> segment

\* message.toLowerCase().includes(word)
includes(message, word) == \E k \in 1..Len(message) : toLowerCase(message[k]) = word

\* every failure retried
retryOnAlways(error) == TRUE

\* the default retryOn
retryOn(error) ==
    /\ error.isError
    /\ \/ includes(error.message, "rate limit")
       \/ includes(error.message, "timeout")
       \/ includes(error.message, "network")
       \/ includes(error.message, "503")
       \/ includes(error.message, "429")

\* the delay doubled without the cap
NextDelayUncapped(delay, maxDelayMs) == delay * 2

\* Math.min(delay * 2, maxDelayMs)
NextDelay(delay, maxDelayMs) == IF delay * 2 < maxDelayMs THEN delay * 2 ELSE maxDelayMs

\* the options callers pass: the defaults, fewer retries, longer first delays
RetryOptions ==
    {[maxRetries |-> n, initialDelayMs |-> d, maxDelayMs |-> DefaultMaxDelayMs] :
        n \in 0..DefaultMaxRetries,
        d \in {DefaultInitialDelayMs, 10 * DefaultInitialDelayMs, DefaultMaxDelayMs}}

\* the locals of a withRetry call: its options, the loop variables, and the history of
\* its attempts (the values thrown) and of its waits
RetryLocal(options) ==
    [op |-> "withRetry", options |-> options, attempt |-> 0,
     delay |-> options.initialDelayMs, lastError |-> {}, thrown |-> <<>>, waits |-> <<>>,
     calls |-> 0, out |-> {}]

InitRetry ==
    /\ ledger = BatchLedger
    /\ customerMapping = {}
    /\ skuMapping = {}
    /\ invoiceValidation = {}
    /\ matchingAlgorithmLog = {}
    /\ qbInvoices = {}
    /\ confirmed = {}
    /\ nextId = FirstIds
    /\ clock = 0
    /\ lastCall = NoCall
    /\ pc = [p \in Procs |-> IF p = "p1" THEN "attempt" ELSE "idle"]
    /\ \E options \in RetryOptions :
          loc = [p \in Procs |-> IF p = "p1" THEN RetryLocal(options) ELSE NoCall]

\* `return await operation()`: the operation returns
RetryAttemptReturns(p) ==
    /\ pc[p] = "attempt"
    /\ loc[p].attempt <= loc[p].options.maxRetries
    /\ Goto(p, "done", [loc[p] EXCEPT !.calls = @ + 1,
                                      !.out = {[returned |-> TRUE, value |-> "value",
                                                error |-> {}]}])
    /\ UNCHANGED <<ledger, customerMapping, skuMapping, invoiceValidation,
                   matchingAlgorithmLog, qbInvoices, confirmed, nextId, clock, lastCall>>

\* the operation throws: rethrown on the last attempt or when retryOn refuses, else the
\* loop goes to its wait
RetryAttemptThrows(p, error) ==
    /\ pc[p] = "attempt"
    /\ loc[p].attempt <= loc[p].options.maxRetries
    /\ IF loc[p].attempt = loc[p].options.maxRetries \/ ~retryOn(error)
       THEN Goto(p, "done", [loc[p] EXCEPT !.calls = @ + 1,
                                           !.lastError = {error},
                                           !.thrown = Append(@, error),
                                           !.out = {[returned |-> FALSE, value |-> "",
                                                     error |-> {error}]}])
       ELSE Goto(p, "wait", [loc[p] EXCEPT !.calls = @ + 1,
                                           !.lastError = {error},
                                           !.thrown = Append(@, error)])
    /\ UNCHANGED <<ledger, customerMapping, skuMapping, invoiceValidation,
                   matchingAlgorithmLog, qbInvoices, confirmed, nextId, clock, lastCall>>

\* the wait of setTimeout, then the delay doubled and the next turn of the loop
RetryWait(p) ==
    /\ pc[p] = "wait"
    /\ Goto(p, "attempt", [loc[p] EXCEPT !.waits = Append(@, loc[p].delay),
                                         !.delay = NextDelay(@, loc[p].options.maxDelayMs),
                                         !.attempt = @ + 1])
    /\ UNCHANGED <<ledger, customerMapping, skuMapping, invoiceValidation,
                   matchingAlgorithmLog, qbInvoices, confirmed, nextId, clock, lastCall>>

NextRetry ==
    \/ RetryAttemptReturns("p1")
    \/ \E error \in ThrownValues : RetryAttemptThrows("p1", error)
    \/ RetryWait("p1")

SpecRetry == InitRetry /\ [][NextRetry]_vars

-----------------------------------------------------------------------------
(* Fuzzy matching (lib/fuzzy-match).  A string is the sequence of its characters. *)

UpperCase == <<"A", "B", "C", "D", "E", "F", "G", "H", "I", "J", "K", "L", "M",
               "N", "O", "P", "Q", "R", "S", "T", "U", "V", "W", "X", "Y", "Z">>
LowerCase == <<"a", "b", "c", "d", "e", "f", "g", "h", "i", "j", "k", "l", "m",
               "n", "o", "p", "q", "r", "s", "t", "u", "v", "w", "x", "y", "z">>
Digits == {"0", "1", "2", "3", "4", "5", "6", "7", "8", "9"}

\* toLowerCase, then NFD with the combining marks removed, then [^\w\s] replaced by a
\* space, on one character
NormalizeChar(c) ==
    IF \E k \in 1..Len(UpperCase) : UpperCase[k] = c
    THEN LowerCase[CHOOSE k \in 1..Len(UpperCase) : UpperCase[k] = c]
    ELSE IF c \in {"é", "É", "è", "ê"} THEN "e"
    ELSE IF (\E k \in 1..Len(LowerCase) : LowerCase[k] = c) \/ c \in Digits \/ c = "_"
    THEN c
    ELSE " "

\* \s+ collapsed to one space, and the leading space trimmed, over characters already
\* mapped; out is what is kept so far
RECURSIVE CollapseSpaces(_, _)
CollapseSpaces(str, out) ==
    IF str = <<>> THEN out
    ELSE IF Head(str) = " " /\ (out = <<>> \/ out[Len(out)] = " ")
    THEN CollapseSpaces(Tail(str), out)
    ELSE CollapseSpaces(Tail(str), Append(out, Head(str)))

\* the trailing space trimmed
TrimEnd(str) ==
    IF str # <<>> /\ str[Len(str)] = " " THEN SubSeq(str, 1, Len(str) - 1) ELSE str

normalizeString(str) ==
    TrimEnd(CollapseSpaces([k \in 1..Len(str) |-> NormalizeChar(str[k])], <<>>))

Min3(a, b, c) == IF a <= b /\ a <= c THEN a ELSE IF b <= c THEN b ELSE c

\* row i of the matrix (i >= 1), filled left to right from the row above; row[j + 1] is
\* matrix[i][j]
RECURSIVE MatrixRow(_, _, _, _)
MatrixRow(row, above, a, ch) ==
    IF Len(row) = Len(a) + 1 THEN row
    ELSE MatrixRow(Append(row, IF ch = a[Len(row)]
                               THEN above[Len(row)]
                               ELSE Min3(above[Len(row)] + 1, row[Len(row)] + 1,
                                         above[Len(row) + 1] + 1)),
                   above, a, ch)

\* the rows from i to b.length, the last one returned
RECURSIVE MatrixRows(_, _, _, _)
MatrixRows(above, a, b, i) ==
    IF i > Len(b) THEN above
    ELSE MatrixRows(MatrixRow(<<i>>, above, a, b[i]), a, b, i + 1)

levenshteinDistance(a, b) ==
    IF Len(a) = 0 THEN Len(b)
    ELSE IF Len(b) = 0 THEN Len(a)
    ELSE MatrixRows([j \in 1..(Len(a) + 1) |-> j - 1], a, b, 1)[Len(a) + 1]

Max2(a, b) == IF a >= b THEN a ELSE b

\* a similarity is the fraction num / den
Fraction(num, den) == [num |-> num, den |-> den]

\* 1 - distance / maxLength of two normalized strings
SimilarityOf(na, nb) ==
    IF na = nb THEN Fraction(1, 1)
    ELSE Fraction(Max2(Len(na), Len(nb)) - levenshteinDistance(na, nb),
                  Max2(Len(na), Len(nb)))

\* a and b are strings or Null
stringSimilarity(a, b) ==
    IF Falsy(a) /\ Falsy(b) THEN Fraction(1, 1)
    ELSE IF Falsy(a) \/ Falsy(b) THEN Fraction(0, 1)
    ELSE SimilarityOf(normalizeString(a), normalizeString(b))

\* comparisons of fractions with positive denominators
FracLess(x, y) == x.num * y.den < y.num * x.den
FracAtLeast(x, num, den) == x.num * den >= num * x.den

\* String.prototype.includes
Includes(str, word) ==
    \E i \in 1..Len(str) : i + Len(word) - 1 <= Len(str)
                           /\ SubSeq(str, i, i + Len(word) - 1) = word

-----------------------------------------------------------------------------
(* SKU matching service and the bulk approval of its matches *)

\* the null of a string-valued field, which no sequence of characters equals
NoString == <<Null>>

\* a string that is null or empty
Blank(str) == str = NoString \/ str = <<>>

QBItem(id, name, sku, active) == [Id |-> id, Name |-> name, Sku |-> sku, Active |-> active]

SoftDeleteMarkers ==
    {<<"(", "s", "u", "p", "p", "r", "i", "m", "é", ")">>,
     <<"(", "d", "e", "l", "e", "t", "e", "d", ")">>}

\* every item the platform returned is a candidate
IsCandidateAny(item) == TRUE

\* the items indexed and compared: active and without soft-delete marker in the name
IsCandidate(item) ==
    /\ item.Active = "true"
    /\ \A marker \in SoftDeleteMarkers : ~Includes(item.Name, marker)

\* Map.get on qbByCode: the last candidate item of the normalized code
qbByCode(qbItems, code) ==
    SelectSeq(qbItems, LAMBDA item : /\ IsCandidate(item)
                                     /\ ~Blank(item.Sku)
                                     /\ normalizeString(item.Sku) = code)

\* Map.get on qbByName: the last candidate item of the normalized name
qbByName(qbItems, name) ==
    SelectSeq(qbItems, LAMBDA item : /\ IsCandidate(item)
                                     /\ normalizeString(item.Name) = name)

SKUMatchResult(atekSku, qbItem, matchType, confidence) ==
    [atekSku |-> atekSku, qbItem |-> qbItem, matchType |-> matchType,
     confidence |-> confidence]

\* strategy 3: the loop over the items, best being {} or the best item so far
RECURSIVE FuzzyBest(_, _, _, _)
FuzzyBest(qbItems, name, best, bestScore) ==
    IF qbItems = <<>> THEN [item |-> best, score |-> bestScore]
    ELSE IF /\ IsCandidate(Head(qbItems))
            /\ FracLess(bestScore, stringSimilarity(name, Head(qbItems).Name))
            /\ FracAtLeast(stringSimilarity(name, Head(qbItems).Name), 8, 10)
    THEN FuzzyBest(Tail(qbItems), name, {Head(qbItems)},
                   stringSimilarity(name, Head(qbItems).Name))
    ELSE FuzzyBest(Tail(qbItems), name, best, bestScore)

FuzzyResult(atekSku, fuzzy) ==
    IF fuzzy.item # {} /\ FracAtLeast(fuzzy.score, 8, 10)
    THEN SKUMatchResult(atekSku, fuzzy.item, "fuzzy_name",
                        Fraction(fuzzy.score.num * 9, fuzzy.score.den * 10))
    ELSE SKUMatchResult(atekSku, {}, "no_match", Fraction(0, 1))

\* strategies 2 and 3, tried when the code matched nothing
MatchByName(qbItems, atekSku) ==
    IF Blank(atekSku.name) THEN SKUMatchResult(atekSku, {}, "no_match", Fraction(0, 1))
    ELSE IF qbByName(qbItems, normalizeString(atekSku.name)) # <<>>
    THEN SKUMatchResult(atekSku,
            {qbByName(qbItems, normalizeString(atekSku.name))
                [Len(qbByName(qbItems, normalizeString(atekSku.name)))]},
            "exact_name", Fraction(95, 100))
    ELSE FuzzyResult(atekSku, FuzzyBest(qbItems, atekSku.name, {}, Fraction(0, 1)))

\* the result for one ledger SKU
MatchSku(qbItems, atekSku) ==
    IF ~Blank(atekSku.code) /\ qbByCode(qbItems, normalizeString(atekSku.code)) # <<>>
    THEN SKUMatchResult(atekSku,
            {qbByCode(qbItems, normalizeString(atekSku.code))
                [Len(qbByCode(qbItems, normalizeString(atekSku.code)))]},
            "exact_code", Fraction(1, 1))
    ELSE MatchByName(qbItems, atekSku)

\* nothing returned without a catalog
matchInvoiceSKUsOrNothing(atekSkus, connected, fetched, qbItems) ==
    IF ~connected \/ ~fetched THEN <<>>
    ELSE [k \in 1..Len(atekSkus) |-> MatchSku(qbItems, atekSkus[k])]

\* connected is what isConnected returns and fetched whether listItems returned
matchInvoiceSKUsWithQBItems(atekSkus, connected, fetched, qbItems) ==
    IF ~connected \/ ~fetched
    THEN [k \in 1..Len(atekSkus) |->
             SKUMatchResult(atekSkus[k], {}, "no_match", Fraction(0, 1))]
    ELSE [k \in 1..Len(atekSkus) |-> MatchSku(qbItems, atekSkus[k])]

\* $ifNull of the grouping: the code of the line, or its SKU id when the code is null
GroupKey(line) == IF line.skuCode = NoString THEN line.skuId ELSE line.skuCode

\* the ledger's aggregation: one SKU per group key, with the values of the first line of
\* the group; a code that is null or empty is then replaced by the SKU id
RECURSIVE UniqueSkus(_, _)
UniqueSkus(lines, seen) ==
    IF lines = <<>> THEN <<>>
    ELSE IF GroupKey(Head(lines)) \in seen THEN UniqueSkus(Tail(lines), seen)
    ELSE <<[skuId |-> Head(lines).skuId,
            code |-> IF Blank(Head(lines).skuCode) THEN Head(lines).skuId
                     ELSE Head(lines).skuCode,
            name |-> Head(lines).skuName]>>
         \o UniqueSkus(Tail(lines), seen \cup {GroupKey(Head(lines))})

\* the lines of the sync-eligible invoices of the ledger
RECURSIVE EligibleLines(_, _)
EligibleLines(ldg, order) ==
    IF order = <<>> THEN <<>>
    ELSE (IF Head(order) \in DOMAIN ldg
             /\ ldg[Head(order)].status \in {"sent", "paid", "partial", "overdue"}
          THEN ldg[Head(order)].lineItems ELSE <<>>)
         \o EligibleLines(ldg, Tail(order))

getUniqueSKUsFromInvoices(ldg) == UniqueSkus(EligibleLines(ldg, LedgerOrder), {})

matchingMethodOf(matchType) ==
    IF matchType = "exact_code" THEN "code_exact"
    ELSE IF matchType \in {"exact_name", "fuzzy_name"} THEN "name_fuzzy"
    ELSE "manual"

\* the columns approveAllMatches writes, on a row of key mappingId for the SKU
ApprovedSkuRow(mappingId, atekSkuId, atekSkuCode, match, now) ==
    [mappingId |-> mappingId, atekSkuId |-> atekSkuId, atekSkuCode |-> atekSkuCode,
     quickbooksItemId |-> The(match.qbItem).Id, mappingStatus |-> "approved",
     confidenceScore |-> match.confidence,
     matchingMethod |-> matchingMethodOf(match.matchType), lastModifiedDate |-> now]

NextSkuMappingId(sm) ==
    IF sm = {} THEN 1 ELSE 1 + (CHOOSE n \in {r.mappingId : r \in sm} :
                                   \A r \in sm : r.mappingId <= n)

Counted(sm, approved, skipped, st) ==
    [sm |-> sm, approvedCount |-> st.approvedCount + approved,
     skippedCount |-> st.skippedCount + skipped]

\* every match with an item written, approved before or not
ApproveTurnAlways(st, match, existing, now) ==
    IF match.matchType = "no_match" \/ match.qbItem = {}
    THEN Counted(st.sm, 0, 1, st)
    ELSE IF existing # {}
    THEN Counted({IF r.mappingId = The(existing).mappingId
                  THEN ApprovedSkuRow(r.mappingId, r.atekSkuId, r.atekSkuCode, match, now)
                  ELSE r : r \in st.sm}, 1, 0, st)
    ELSE Counted(st.sm \cup {ApprovedSkuRow(NextSkuMappingId(st.sm), match.atekSku.skuId,
                                            match.atekSku.code, match, now)}, 1, 0, st)

\* one turn of the loop of approveAllMatches, existing being the row findFirst returned
\* for the code of the SKU
ApproveTurn(st, match, existing, now) ==
    IF match.matchType = "no_match" \/ match.qbItem = {}
    THEN Counted(st.sm, 0, 1, st)
    ELSE IF existing # {}
    THEN IF \/ The(existing).mappingStatus # "approved"
            \/ The(existing).quickbooksItemId # The(match.qbItem).Id
         THEN Counted({IF r.mappingId = The(existing).mappingId
                       THEN ApprovedSkuRow(r.mappingId, r.atekSkuId, r.atekSkuCode,
                                           match, now)
                       ELSE r : r \in st.sm}, 1, 0, st)
         ELSE Counted(st.sm, 0, 1, st)
    ELSE IF Blank(match.atekSku.skuId) /\ Blank(match.atekSku.code)
    THEN Counted(st.sm, 0, 1, st)
    ELSE Counted(st.sm \cup
                    {ApprovedSkuRow(NextSkuMappingId(st.sm),
                                    IF Blank(match.atekSku.skuId) THEN match.atekSku.code
                                    ELSE match.atekSku.skuId,
                                    IF Blank(match.atekSku.code) THEN <<>>
                                    ELSE match.atekSku.code, match, now)}, 1, 0, st)

RECURSIVE approveLoop(_, _, _)
approveLoop(st, matches, now) ==
    IF matches = <<>> THEN st
    ELSE approveLoop(
            ApproveTurn(st, Head(matches),
                        FindFirst({r \in st.sm :
                                      r.atekSkuCode = (IF Blank(Head(matches).atekSku.code)
                                                       THEN <<>>
                                                       ELSE Head(matches).atekSku.code)},
                                  MappingKey),
                        now),
            Tail(matches), now)

\* the table after approveAllMatches and what it returns
approveAllMatches(sm, matches, now) ==
    approveLoop([sm |-> sm, approvedCount |-> 0, skippedCount |-> 0], matches, now)

-----------------------------------------------------------------------------
(* Specification of the SKU matching: the matcher and the bulk approval, called in
   sequence against catalogs the platform may return *)

\* calls of the matcher and of the bulk approval per behaviour
MaxApprovals == 2

SkuLine(skuId, skuCode, skuName) == [skuId |-> skuId, skuCode |-> skuCode, skuName |-> skuName]

WidgetLine == SkuLine(<<"s", "1">>, <<"W", "-", "1">>, <<"W", "i", "d", "g", "e", "t">>)

\* a line without code: its SKU is known by its id
NoCodeLine == SkuLine(<<"s", "2">>, NoString, <<"W", "i", "d", "g", "e", "t", "s">>)

NoNameLine == SkuLine(<<"s", "3">>, <<"X", "-", "9">>, NoString)

\* a line of the same SKU with an empty code and the name it had then
EmptyCodeLine == SkuLine(<<"s", "2">>, <<>>, <<"W", "i", "d", "g", "e", "t">>)

SkuLineLists ==
    {<<WidgetLine>>, <<WidgetLine, NoCodeLine>>, <<NoNameLine, WidgetLine, WidgetLine>>,
     <<EmptyCodeLine, NoCodeLine>>}

SkuLedgers ==
    {[i \in {"inv1"} |-> Invoice(i, "INV-1", "sent", Null, lines, 10)] :
        lines \in SkuLineLists}

ItemCode == QBItem("item1", <<"W", "d", "g", "t">>, <<"W", " ", "1">>, "true")

ItemName == QBItem("item2", <<"W", "I", "D", "G", "E", "T">>, NoString, "true")

ItemNear == QBItem("item3", <<"W", "i", "d", "g", "e", "t", "s">>, NoString, "true")

ItemShort == QBItem("item4", <<"W", "i", "d", "g", "e">>, NoString, "true")

ItemFar == QBItem("item5", <<"W", "i", "d", "g", "e", "t", "r", "y">>, NoString, "true")

ItemInactive ==
    QBItem("item6", <<"W", "i", "d", "g", "e", "t">>, <<"W", "-", "1">>, "false")

ItemUnflagged ==
    QBItem("item7", <<"W", "i", "d", "g", "e", "t">>, <<"W", "-", "1">>, "undefined")

ItemDeleted ==
    QBItem("item8", <<"W", "i", "d", "g", "e", "t", " ", "(", "d", "e", "l", "e", "t", "e", "d", ")">>,
           <<"W", "-", "1">>, "true")

ItemSupprime ==
    QBItem("item9", <<"W", "i", "d", "g", "e", "t", " ", "(", "s", "u", "p", "p", "r", "i", "m", "é", ")">>,
           <<"W", "-", "1">>, "true")

\* what listItems may return
Catalogs ==
    {<<>>, <<ItemCode>>, <<ItemName>>, <<ItemNear>>, <<ItemShort>>, <<ItemFar>>,
     <<ItemInactive>>, <<ItemDeleted>>,
     <<ItemName, ItemCode>>, <<ItemShort, ItemNear>>, <<ItemNear, ItemName>>,
     <<ItemDeleted, ItemNear>>, <<ItemUnflagged, ItemShort>>, <<ItemSupprime, ItemFar>>}

\* a row the SKU workflow left for the widget before the bulk approval
WidgetRow(itemId, status) ==
    [mappingId |-> 1, atekSkuId |-> WidgetLine.skuId, atekSkuCode |-> WidgetLine.skuCode,
     quickbooksItemId |-> itemId, mappingStatus |-> status,
     confidenceScore |-> Fraction(1, 1), matchingMethod |-> "manual",
     lastModifiedDate |-> 0]

WidgetTables == {{}, {WidgetRow("item1", "proposed")}, {WidgetRow("item2", "approved")}}

InitSkuMatch ==
    /\ ledger \in SkuLedgers
    /\ customerMapping = {}
    /\ skuMapping \in WidgetTables
    /\ invoiceValidation = {}
    /\ matchingAlgorithmLog = {}
    /\ qbInvoices = {}
    /\ confirmed = {}
    /\ nextId = FirstIds
    /\ clock = 0
    /\ lastCall = NoCall
    /\ pc = [p \in Procs |-> "idle"]
    /\ loc = [p \in Procs |-> NoCall]

SkuCall(op, connected, fetched, qbItems, before, matches, result) ==
    [op |-> op, id |-> Null, threw |-> FALSE, before |-> before,
     qbBefore |-> [connected |-> connected, fetched |-> fetched, qbItems |-> qbItems],
     result |-> [matches |-> matches, approvedCount |-> result.approvedCount,
                 skippedCount |-> result.skippedCount, totalProcessed |-> Len(matches)],
     remote |-> {}]

\* the matches query: the matcher alone
GetMatches(connected, fetched, qbItems) ==
    /\ clock < MaxApprovals
    /\ clock' = clock + 1
    /\ lastCall' = SkuCall("getMatches", connected, fetched, qbItems, skuMapping,
                           matchInvoiceSKUsWithQBItems(getUniqueSKUsFromInvoices(ledger),
                                                       connected, fetched, qbItems),
                           [approvedCount |-> 0, skippedCount |-> 0])
    /\ UNCHANGED <<ledger, customerMapping, skuMapping, invoiceValidation,
                   matchingAlgorithmLog, qbInvoices, confirmed, nextId, pc, loc>>

ApproveWith(connected, fetched, qbItems, result, matches) ==
    /\ skuMapping' = result.sm
    /\ lastCall' = SkuCall("approveAllMatches", connected, fetched, qbItems, skuMapping,
                           matches, result)

\* the mutation approveAllMatches: the matcher, then the loop over its matches
ApproveAllMatches(connected, fetched, qbItems) ==
    /\ clock < MaxApprovals
    /\ clock' = clock + 1
    /\ \E matches \in {matchInvoiceSKUsWithQBItems(getUniqueSKUsFromInvoices(ledger),
                                                   connected, fetched, qbItems)} :
          \E result \in {approveAllMatches(skuMapping, matches, clock + 1)} :
             ApproveWith(connected, fetched, qbItems, result, matches)
    /\ UNCHANGED <<ledger, customerMapping, invoiceValidation,
                   matchingAlgorithmLog, qbInvoices, confirmed, nextId, pc, loc>>

\* the platform: not connected, connected with a failing catalog fetch, or returning a
\* catalog
Platforms ==
    {[connected |-> FALSE, fetched |-> FALSE, qbItems |-> <<>>],
     [connected |-> TRUE, fetched |-> FALSE, qbItems |-> <<>>]}
    \cup {[connected |-> TRUE, fetched |-> TRUE, qbItems |-> c] : c \in Catalogs}

NextSkuMatch ==
    \/ \E pf \in Platforms : GetMatches(pf.connected, pf.fetched, pf.qbItems)
    \/ \E pf \in Platforms : ApproveAllMatches(pf.connected, pf.fetched, pf.qbItems)

SpecSkuMatch == InitSkuMatch /\ [][NextSkuMatch]_vars

-----------------------------------------------------------------------------
(* Customer matching: matchOrganization on the display names of the platform *)

StartsWithDigits(str, n) == Len(str) >= n /\ \A k \in 1..n : str[k] \in Digits

\* /^(\d{4})/: the four digits a display name starts with, or null
extractOrgNumber(displayName) ==
    IF StartsWithDigits(displayName, 4) THEN SubSeq(displayName, 1, 4) ELSE NoString

\* -\d{2} at position i
DashAndTwoDigits(str, i) ==
    /\ Len(str) >= i + 2
    /\ str[i] = "-"
    /\ str[i + 1] \in Digits
    /\ str[i + 2] \in Digits

\* every display name taken for the one of a parent
isSubCustomerNever(displayName) == FALSE

\* /^\d{4}-\d{2}/
isSubCustomer(displayName) ==
    StartsWithDigits(displayName, 4) /\ DashAndTwoDigits(displayName, 5)

RECURSIVE TrimStart(_)
TrimStart(str) == IF str # <<>> /\ Head(str) = " " THEN TrimStart(Tail(str)) ELSE str

RECURSIVE TrimEndAll(_)
TrimEndAll(str) ==
    IF str # <<>> /\ str[Len(str)] = " " THEN TrimEndAll(SubSeq(str, 1, Len(str) - 1))
    ELSE str

\* the display name without /^\d{4}(-\d{2})?\s*/, trimmed
extractNameFromDisplayName(displayName) ==
    TrimEndAll(TrimStart(
        IF StartsWithDigits(displayName, 4) /\ DashAndTwoDigits(displayName, 5)
        THEN SubSeq(displayName, 8, Len(displayName))
        ELSE IF StartsWithDigits(displayName, 4)
        THEN SubSeq(displayName, 5, Len(displayName))
        ELSE displayName))

RECURSIVE padStart(_, _, _)
padStart(str, targetLength, pad) ==
    IF Len(str) >= targetLength THEN str ELSE padStart(<<pad>> \o str, targetLength, pad)

\* orgNum is null or the decimal digits of the number
padOrgNumber(orgNum) == IF orgNum = NoString THEN <<>> ELSE padStart(orgNum, 4, "0")

\* split(' ').filter(Boolean) as a set, cur being the token read so far
RECURSIVE Tokens(_, _)
Tokens(str, cur) ==
    IF str = <<>> THEN (IF cur = <<>> THEN {} ELSE {cur})
    ELSE IF Head(str) = " "
    THEN (IF cur = <<>> THEN {} ELSE {cur}) \cup Tokens(Tail(str), <<>>)
    ELSE Tokens(Tail(str), Append(cur, Head(str)))

TokenRatio(tokensA, tokensB) ==
    IF tokensA = {} /\ tokensB = {} THEN Fraction(1, 1)
    ELSE IF tokensA = {} \/ tokensB = {} THEN Fraction(0, 1)
    ELSE Fraction(Cardinality(tokensA \cap tokensB), Cardinality(tokensA \cup tokensB))

tokenSimilarity(a, b) ==
    TokenRatio(Tokens(normalizeString(a), <<>>), Tokens(normalizeString(b), <<>>))

\* 0.6 x levenshtein + 0.4 x token
WeightedSum(levenshtein, token) ==
    Fraction(6 * levenshtein.num * token.den + 4 * token.num * levenshtein.den,
             10 * levenshtein.den * token.den)

combinedSimilarity(a, b) == WeightedSum(stringSimilarity(a, b), tokenSimilarity(a, b))

FracAbove(x, num, den) == x.num * den > num * x.den

\* the scores of THRESHOLDS, in hundredths
ORG_NUM_MATCH_BASE == 90
NAME_BONUS_HIGH == 10
NAME_BONUS_MED == 5
FUZZY_ONLY_HIGH == 70
FUZZY_ONLY_MED == 50

Min2(a, b) == IF a <= b THEN a ELSE b

MatchCandidate(customer, score, orgNumMatch, nameScore) ==
    [customer |-> customer, score |-> score,
     factors |-> [orgNumMatch |-> orgNumMatch, nameScore |-> nameScore,
                  isSubCustomer |-> FALSE]]

\* strategy 1 for one customer of the organization's number
OrgNumCandidate(customer, nameScore) ==
    MatchCandidate(customer,
                   Fraction(Min2(ORG_NUM_MATCH_BASE
                                    + (IF FracAbove(nameScore, 8, 10) THEN NAME_BONUS_HIGH
                                       ELSE IF FracAbove(nameScore, 5, 10)
                                       THEN NAME_BONUS_MED ELSE 0), 100), 100),
                   TRUE, nameScore)

\* strategy 2 for one customer whose name is similar enough
FuzzyCandidate(customer, nameScore) ==
    MatchCandidate(customer,
                   Fraction((IF FracAbove(nameScore, 85, 100) THEN FUZZY_ONLY_HIGH
                             ELSE FUZZY_ONLY_MED) * nameScore.num, 100 * nameScore.den),
                   FALSE, nameScore)

RECURSIVE OrgNumCandidates(_, _)
OrgNumCandidates(org, orgNumMatches) ==
    IF orgNumMatches = <<>> THEN <<>>
    ELSE (IF isSubCustomer(Head(orgNumMatches).DisplayName) THEN <<>>
          ELSE <<OrgNumCandidate(Head(orgNumMatches),
                    combinedSimilarity(org.name,
                        extractNameFromDisplayName(Head(orgNumMatches).DisplayName)))>>)
         \o OrgNumCandidates(org, Tail(orgNumMatches))

RECURSIVE FuzzyCandidates(_, _)
FuzzyCandidates(org, allQbCustomers) ==
    IF allQbCustomers = <<>> THEN <<>>
    ELSE (IF \/ isSubCustomer(Head(allQbCustomers).DisplayName)
             \/ ~FracAbove(combinedSimilarity(org.name,
                              extractNameFromDisplayName(Head(allQbCustomers).DisplayName)),
                           6, 10)
          THEN <<>>
          ELSE <<FuzzyCandidate(Head(allQbCustomers),
                    combinedSimilarity(org.name,
                        extractNameFromDisplayName(Head(allQbCustomers).DisplayName)))>>)
         \o FuzzyCandidates(org, Tail(allQbCustomers))

\* the stable sort by score descending: c goes behind the candidates scoring as much
RECURSIVE InsertByScore(_, _)
InsertByScore(sorted, c) ==
    IF sorted = <<>> THEN <<c>>
    ELSE IF FracLess(Head(sorted).score, c.score) THEN <<c>> \o sorted
    ELSE <<Head(sorted)>> \o InsertByScore(Tail(sorted), c)

RECURSIVE SortByScore(_, _)
SortByScore(candidates, sorted) ==
    IF candidates = <<>> THEN sorted
    ELSE SortByScore(Tail(candidates), InsertByScore(sorted, Head(candidates)))

\* qbByOrgNum.get(orgNum) || []: the customers whose display name starts with the number
qbByOrgNum(qbCustomers, orgNum) ==
    SelectSeq(qbCustomers, LAMBDA customer : extractOrgNumber(customer.DisplayName) = orgNum)

CustomerMatchResult(org, candidates) ==
    [atekOrganization |-> org,
     qbCustomer |-> IF candidates = <<>> THEN {} ELSE {candidates[1].customer},
     confidenceScore |-> IF candidates = <<>> THEN Fraction(0, 1) ELSE candidates[1].score,
     matchingMethod |-> IF candidates = <<>> THEN "no_match"
                        ELSE IF candidates[1].factors.orgNumMatch THEN "org_num_exact"
                        ELSE "name_fuzzy",
     allCandidates |-> [k \in 1..Min2(Len(candidates), 5) |-> candidates[k].customer.Id]]

\* the candidates of strategy 1, and of strategy 2 when there is none
CandidatesOf(org, allQbCustomers, byOrgNum) ==
    IF byOrgNum # <<>> THEN byOrgNum ELSE FuzzyCandidates(org, allQbCustomers)

matchOrganization(org, allQbCustomers) ==
    CustomerMatchResult(org,
        SortByScore(
            CandidatesOf(org, allQbCustomers,
                IF padOrgNumber(org.orgNumber) = <<>> THEN <<>>
                ELSE OrgNumCandidates(org, qbByOrgNum(allQbCustomers,
                                                      padOrgNumber(org.orgNumber)))),
            <<>>))

-----------------------------------------------------------------------------
(* Specification of the customer matching algorithm: one call of matchOrganization on
   an organization of the ledger and the customers the platform lists *)

NormalizedOrganization(id, name, orgNumber) ==
    [id |-> id, name |-> name, orgNumber |-> orgNumber]

AcmeCo == <<"A", "c", "m", "e", " ", "C", "o">>

\* organization 13, organization 7, and an organization without number
MatchedOrganizations ==
    {NormalizedOrganization("o1", AcmeCo, <<"1", "3">>),
     NormalizedOrganization("o2", <<"Z", "e", "d">>, <<"7">>),
     NormalizedOrganization("o3", AcmeCo, NoString)}

QBCustomer(id, displayName) == [Id |-> id, DisplayName |-> displayName]

\* display names of the platform: with the number of organization 13 and its name, a
\* name close to it or another name; a sub-entity of 13; without number; of number 14
DisplayNames ==
    <<<<"0", "0", "1", "3", " ">> \o AcmeCo,
      <<"0", "0", "1", "3", " ", "A", "c", "m", "e", " ", "C">>,
      <<"0", "0", "1", "3", " ", "Q", "r", "s">>,
      <<"0", "0", "1", "3", "-", "0", "1", " ">> \o AcmeCo,
      AcmeCo,
      <<"A", "c", "m", "e", " ", "C">>,
      <<"0", "0", "1", "4", " ">> \o AcmeCo,
      <<"0", "0", "0", "7", "-", "0", "2", " ", "Z", "e", "d">>>>

QbCustomerPool ==
    {QBCustomer(k, DisplayNames[k]) : k \in 1..Len(DisplayNames)}

\* what listCustomers may return: up to two customers
QbCustomerLists ==
    {<<>>} \cup {<<c>> : c \in QbCustomerPool}
           \cup {<<pair[1], pair[2]>> :
                    pair \in {q \in QbCustomerPool \X QbCustomerPool : q[1] # q[2]}}

MatchLocal(org, qbCustomers) ==
    [op |-> "matchOrganization", org |-> org, qbCustomers |-> qbCustomers, out |-> {}]

InitOrgMatch ==
    /\ ledger = BatchLedger
    /\ customerMapping = {}
    /\ skuMapping = {}
    /\ invoiceValidation = {}
    /\ matchingAlgorithmLog = {}
    /\ qbInvoices = {}
    /\ confirmed = {}
    /\ nextId = FirstIds
    /\ clock = 0
    /\ lastCall = NoCall
    /\ pc = [p \in Procs |-> IF p = "p1" THEN "match" ELSE "idle"]
    /\ \E org \in MatchedOrganizations, qbCustomers \in QbCustomerLists :
          loc = [p \in Procs |-> IF p = "p1" THEN MatchLocal(org, qbCustomers)
                                 ELSE NoCall]

\* matchOrganization returns
MatchOrganization(p) ==
    /\ pc[p] = "match"
    /\ Goto(p, "done",
            [loc[p] EXCEPT !.out = {matchOrganization(loc[p].org, loc[p].qbCustomers)}])
    /\ UNCHANGED <<ledger, customerMapping, skuMapping, invoiceValidation,
                   matchingAlgorithmLog, qbInvoices, confirmed, nextId, clock, lastCall>>

NextOrgMatch == MatchOrganization("p1")

SpecOrgMatch == InitOrgMatch /\ [][NextOrgMatch]_vars

-----------------------------------------------------------------------------
(* Specification of the audit log: the two writers of matching_algorithm_log, the
   validation of an invoice and the customer matching run, called in sequence *)

\* the invoices of organization o1: one without manager, or two of different managers
AuditLedgers ==
    {[i \in {"inv1"} |-> Invoice(i, "INV-1", "sent", Null, <<LineItem("s1", "A", 2, 5, 10)>>, 10)],
     [i \in {"inv1", "inv2"} |->
        Invoice(i, "INV-1", "sent", IF i = "inv1" THEN "m1" ELSE "m2",
                <<LineItem("s1", "A", 2, 5, 10)>>, 10)]}

InitAudit ==
    /\ ledger \in AuditLedgers
    /\ customerMapping = {}
    /\ skuMapping = {SkuMappingRow(1, "s1", "A", "item1", "approved")}
    /\ invoiceValidation = {}
    /\ matchingAlgorithmLog = {}
    /\ qbInvoices = {}
    /\ confirmed = {}
    /\ nextId = [FirstIds EXCEPT !.mapping = 1]
    /\ clock = 0
    /\ lastCall = NoCall
    /\ pc = [p \in Procs |-> "idle"]
    /\ loc = [p \in Procs |-> NoCall]

NextAudit ==
    \/ \E id \in CallIds : ValidateInvoice(id)
    \/ RunCustomerMatching
    \/ \E id \in InvoiceIds : RouterMarkAsSynced(id, "q1")

SpecAudit == InitAudit /\ [][NextAudit]_vars

-----------------------------------------------------------------------------
(* The arithmetic of the payload: the amounts of the ledger's lines and the Quebec taxes.
   Amounts are in cents. *)

\* the largest subtotal, in cents, the taxes are computed for (besides 1000.00)
MaxSubtotalCents == 4000

\* the tax rates in thousandths of a percent: TPS 5 %, TVQ 9.975 %
QB_TAX_PERCENT_TPS == 5000
QB_TAX_PERCENT_TVQ == 9975

\* every amount cut to the cent below
MathFloor(n, d) == n \div d

\* Math.round(n / d) for d > 0: the nearest integer, halves going up
MathRound(n, d) == (2 * n + d) \div (2 * d)

\* the tax detail of a subtotal; the sum of two amounts in cents is in cents, which the
\* rounding of totalTax leaves as it is
buildQCTaxDetail(subtotal) ==
    [TotalTax |-> MathRound(subtotal * QB_TAX_PERCENT_TPS, 100000)
                     + MathRound(subtotal * QB_TAX_PERCENT_TVQ, 100000),
     TaxLine |-> <<[Amount |-> MathRound(subtotal * QB_TAX_PERCENT_TPS, 100000),
                    TaxPercent |-> QB_TAX_PERCENT_TPS, NetAmountTaxable |-> subtotal],
                   [Amount |-> MathRound(subtotal * QB_TAX_PERCENT_TVQ, 100000),
                    TaxPercent |-> QB_TAX_PERCENT_TVQ, NetAmountTaxable |-> subtotal]>>]

\* a line of a ledger invoice as stored; a number that is absent is 0, as `|| 0` has it
RawLine(sku, code, quantity, unit_price, discount, total) ==
    [sku |-> sku, code |-> code, quantity |-> quantity, unit_price |-> unit_price,
     discount |-> discount, total |-> total]

\* item.total || (grossAmount - discountAmount)
LineAmount(total, grossAmount, discount) ==
    IF total # 0 THEN total
    ELSE grossAmount - (IF discount > 0 THEN (grossAmount * discount) \div 100 ELSE 0)

\* the line item normalizeInvoice makes of a stored line
NormalizeLine(item) ==
    LineItem(OrElse(item.sku, ""), OrElse(item.code, OrElse(item.sku, Null)),
             item.quantity, item.unit_price,
             LineAmount(item.total, item.quantity * item.unit_price, item.discount))

normalizeInvoice(id, number, skus) ==
    Invoice(id, number, "sent", Null, [k \in 1..Len(skus) |-> NormalizeLine(skus[k])],
            0)

RECURSIVE SumAmounts(_)
SumAmounts(lines) ==
    IF lines = <<>> THEN 0 ELSE Head(lines).Amount + SumAmounts(Tail(lines))

\* the payload of a built invoice with its tax detail
TaxedPayload(built) ==
    [success |-> built.success, Line |-> built.invoice.Line,
     TxnTaxDetail |-> buildQCTaxDetail(SumAmounts(built.invoice.Line))]

-----------------------------------------------------------------------------
(* Specification of the payload arithmetic: one call of buildQCTaxDetail on a subtotal,
   or one call of buildQBInvoice on a ledger invoice with approved mappings *)

TaxedSubtotals == (-MaxSubtotalCents..MaxSubtotalCents) \cup {100000}

\* stored lines of SKU A: quantities, unit prices, percentage discounts and totals
RawLines ==
    {RawLine("s1", "A", quantity, unit_price, discount, total) :
        quantity \in 0..3, unit_price \in {0, 500, 1000}, discount \in {0, 10, 100},
        total \in {0, 900, 1000}}

RawLineLists ==
    {<<line>> : line \in RawLines}
    \cup {<<RawLine("s1", "A", 2, 500, 0, 0), line>> : line \in RawLines}

TaxLocal(subtotal) == [op |-> "buildQCTaxDetail", subtotal |-> subtotal, out |-> {}]

BuildLocal(skus) == [op |-> "buildQBInvoice", skus |-> skus, out |-> {}]

PayloadJobs ==
    {[p \in Procs |-> IF p = "p1" THEN TaxLocal(subtotal) ELSE NoCall] :
        subtotal \in TaxedSubtotals}
    \cup {[p \in Procs |-> IF p = "p2" THEN BuildLocal(skus) ELSE NoCall] :
             skus \in RawLineLists}

InitPayload ==
    /\ ledger = BatchLedger
    /\ customerMapping = {}
    /\ skuMapping = {SkuMappingRow(1, "s1", "A", "item1", "approved")}
    /\ invoiceValidation = {}
    /\ matchingAlgorithmLog = {}
    /\ qbInvoices = {}
    /\ confirmed = {}
    /\ nextId = FirstIds
    /\ clock = 0
    /\ lastCall = NoCall
    /\ loc \in PayloadJobs
    /\ pc = [p \in Procs |-> IF loc[p] = NoCall THEN "idle" ELSE "call"]

\* buildQCTaxDetail returns
BuildQCTaxDetail(p) ==
    /\ pc[p] = "call"
    /\ loc[p].op = "buildQCTaxDetail"
    /\ Goto(p, "done", [loc[p] EXCEPT !.out = {buildQCTaxDetail(loc[p].subtotal)}])
    /\ UNCHANGED <<ledger, customerMapping, skuMapping, invoiceValidation,
                   matchingAlgorithmLog, qbInvoices, confirmed, nextId, clock, lastCall>>

\* the ledger invoice is read and normalized, and buildQBInvoice returns
BuildQBInvoice(p) ==
    /\ pc[p] = "call"
    /\ loc[p].op = "buildQBInvoice"
    /\ \E built \in {buildQBInvoice(skuMapping,
                                    normalizeInvoice("inv1", "INV-1", loc[p].skus),
                                    CustomerResult(TRUE, 0, "c1", <<>>))} :
          Goto(p, "done", [loc[p] EXCEPT !.out = {TaxedPayload(built)}])
    /\ UNCHANGED <<ledger, customerMapping, skuMapping, invoiceValidation,
                   matchingAlgorithmLog, qbInvoices, confirmed, nextId, clock, lastCall>>

NextPayload ==
    \/ BuildQCTaxDetail("p1")
    \/ BuildQBInvoice("p2")

SpecPayload == InitPayload /\ [][NextPayload]_vars

-----------------------------------------------------------------------------
(* syncAllReady over a validated ledger *)

DefaultSyncLimit == 50

\* the rows in the order of their key
RECURSIVE RowsInOrder(_)
RowsInOrder(rows) ==
    IF rows = {} THEN <<>>
    ELSE <<MinBy(rows, ValidationKey)>>
         \o RowsInOrder(rows \ {MinBy(rows, ValidationKey)})

\* the rows selected by the flag alone
readyValidationsFlagged(iv) == {v \in iv : v.readyForSync}

\* the rows syncAllReady selects
readyValidations(iv) ==
    {v \in iv : v.validationStatus = "ready" /\ v.readyForSync}

\* the invoice ids syncAllReady hands to syncBatch; limit 0 stands for none given
readyInvoiceIds(iv, limit) ==
    [k \in 1..Min2(IF limit = 0 THEN DefaultSyncLimit ELSE limit,
                   Cardinality(readyValidations(iv))) |->
        RowsInOrder(readyValidations(iv))[k].atekInvoiceId]

InitReady ==
    /\ ledger \in BatchLedgers
    /\ customerMapping \in MatchedCustomerTables
    /\ skuMapping \in
          {{SkuMappingRow(1, "s1", "A", "item1", "approved")} \cup b :
              b \in {{}, {SkuMappingRow(2, "s2", "B", "item2", "approved")}}}
    /\ \E c \in {validateBatchLoop([iv |-> {}, log |-> {}, ids |-> FirstIds,
                                    results |-> <<>>],
                                   customerMapping, skuMapping, ledger, LedgerOrder)} :
            /\ invoiceValidation = c.iv
            /\ matchingAlgorithmLog = c.log
            /\ nextId = c.ids
    /\ qbInvoices = {}
    /\ confirmed = {}
    /\ clock = 0
    /\ lastCall = NoCall
    /\ pc = [p \in Procs |-> "idle"]
    /\ loc = [p \in Procs |-> NoCall]

SyncAllReady(limit) ==
    /\ Tick
    /\ \E invoiceIds \in {readyInvoiceIds(invoiceValidation, limit)} :
       \E st \in syncBatchLoop(BatchSyncStart(invoiceValidation, qbInvoices, nextId.qb,
                                              confirmed),
                               customerMapping, skuMapping, ledger, invoiceIds, clock + 1) :
          /\ invoiceValidation' = st.iv
          /\ qbInvoices' = st.qb
          /\ nextId' = [nextId EXCEPT !.qb = st.nextQb]
          /\ confirmed' = st.confirmed
          /\ lastCall' = Call("syncAllReady", "", FALSE, invoiceValidation, qbInvoices,
                              BatchSyncResult(invoiceIds, st), NoRemote)
    /\ UNCHANGED <<ledger, customerMapping, skuMapping, matchingAlgorithmLog, pc, loc>>

NextReady ==
    \/ \E id \in DOMAIN ledger : ValidateInvoice(id)
    \/ \E id \in DOMAIN ledger : ApproveForSync(id)
    \/ \E limit \in {0, 1} : SyncAllReady(limit)
    \/ ClearAllValidations

SpecReady == InitReady /\ [][NextReady]_vars

-----------------------------------------------------------------------------
(* Properties of the sequential specification *)

RowsOf(iv, id) == {r \in iv : r.atekInvoiceId = id}

\* C1: a validateInvoice call leaves every row that was synced before it synced, with
\* the same remote invoice id, whatever verdict it computed.
C1_ValidationKeepsSynced ==
    (lastCall.op = "validateInvoice" /\ ~lastCall.threw) =>
        \A r \in lastCall.before :
            r.validationStatus = "synced" =>
                \E r2 \in invoiceValidation :
                    /\ r2.validationId = r.validationId
                    /\ r2.validationStatus = "synced"
                    /\ r2.quickbooksInvoiceId = r.quickbooksInvoiceId

\* a validation that computed blocked has run on an invoice whose row was synced
C1_Witness ==
    /\ lastCall.op = "validateInvoice" /\ ~lastCall.threw
    /\ lastCall.result.status = "blocked"
    /\ \E r \in RowsOf(lastCall.before, lastCall.id) : r.validationStatus = "synced"

\* C2: after syncInvoice returned success with remote id q, the invoice has a validation
\* row, and its rows are synced with quickbooksInvoiceId = q (as stated: for every
\* prior local state, no validation row included).
C2_SuccessMarksSynced ==
    (lastCall.op = "syncInvoice" /\ lastCall.result.success) =>
        /\ RowsOf(invoiceValidation, lastCall.id) # {}
        /\ \A r \in RowsOf(invoiceValidation, lastCall.id) :
              /\ r.validationStatus = "synced"
              /\ r.quickbooksInvoiceId = lastCall.result.quickbooksInvoiceId

\* C4: syncInvoice issues no remote create or update for an invoice whose validation
\* row is blocked at the call.
C4_NoWriteWhenBlocked ==
    (lastCall.op = "syncInvoice" /\ lastCall.remote.kind # "none") =>
        \A r \in RowsOf(lastCall.before, lastCall.id) : r.validationStatus # "blocked"

\* C5: when the duplicate lookup found a remote invoice, syncInvoice creates nothing;
\* the write it issues is an update addressed to the found invoice's id and SyncToken,
\* and a successful result carries the found invoice's id.
C5_DuplicateIsUpdated ==
    (lastCall.op = "syncInvoice" /\ lastCall.remote.found # {}) =>
        LET found == The(lastCall.remote.found) IN
        /\ {q.Id : q \in qbInvoices} = {q.Id : q \in lastCall.qbBefore}
        /\ lastCall.remote.kind \in {"none", "update"}
        /\ lastCall.remote.kind = "update" =>
              /\ lastCall.remote.Id = found.Id
              /\ lastCall.remote.SyncToken = found.SyncToken
        /\ lastCall.result.success =>
              /\ lastCall.result.quickbooksInvoiceId = found.Id
              /\ \E q \in qbInvoices : q.Id = found.Id /\ q.SyncToken = found.SyncToken + 1

\* a sync that found a duplicate has succeeded
C5_Witness ==
    /\ lastCall.op = "syncInvoice"
    /\ lastCall.remote.found # {}
    /\ lastCall.result.success

C8_SyncedOnlyAfterWrite ==
    \A r \in invoiceValidation :
        r.validationStatus = "synced" =>
            <<r.atekInvoiceId, r.quickbooksInvoiceId>> \in confirmed

-----------------------------------------------------------------------------
(* Properties of the customer-mapping workflow *)

\* C9: the customer-mapping table holds at most one row per (organization, contractual
\* manager) pair.
C9_OneRowPerPair ==
    \A r1, r2 \in customerMapping :
        (r1.atekOrganizationId = r2.atekOrganizationId
         /\ r1.atekContractualManagerId = r2.atekContractualManagerId)
            => r1.mappingId = r2.mappingId

\* C10: runCustomerMatching leaves every approved or rejected row exactly as it was; the
\* rows it rewrote were proposed or needs_review, and every row it wrote or inserted is
\* proposed or needs_review.
C10_MatchingKeepsDecisions ==
    lastCall.op = "runCustomerMatching" =>
        /\ \A r \in lastCall.before :
              r.mappingStatus \in {"approved", "rejected"} => r \in customerMapping
        /\ \A r \in lastCall.before :
              r \notin customerMapping => r.mappingStatus \in {"proposed", "needs_review"}
        /\ \A r \in customerMapping :
              r \notin lastCall.before => r.mappingStatus \in {"proposed", "needs_review"}

\* a matching run has rewritten a row and found an approved and a rejected row
C10_Witness ==
    /\ lastCall.op = "runCustomerMatching"
    /\ \E r \in lastCall.before : r.mappingStatus = "approved"
    /\ \E r \in lastCall.before : r.mappingStatus = "rejected"
    /\ \E r \in lastCall.before : r \notin customerMapping

\* C11: clearAllMappings leaves exactly the rows that were neither proposed nor
\* needs_review, each as it was; every approved and every rejected row is among them.
C11_ClearKeepsDecisions ==
    lastCall.op = "clearAllMappings" =>
        /\ customerMapping = {r \in lastCall.before :
                                 r.mappingStatus \notin {"proposed", "needs_review"}}
        /\ \A r \in lastCall.before :
              r.mappingStatus \in {"approved", "rejected"} => r \in customerMapping

\* clearAllMappings has deleted a row and kept an approved and a rejected one
C11_Witness ==
    /\ lastCall.op = "clearAllMappings"
    /\ \E r \in lastCall.before : r \notin customerMapping
    /\ \E r \in customerMapping : r.mappingStatus = "approved"
    /\ \E r \in customerMapping : r.mappingStatus = "rejected"

\* C12: no step removes or changes a row of the audit table.
C12_LogAppendOnly ==
    [][matchingAlgorithmLog \subseteq matchingAlgorithmLog']_vars

-----------------------------------------------------------------------------
(* Properties of the interleaved specification *)

OpsOf == {loc[p].op : p \in Procs}

\* C3: with one validateInvoice and one syncInvoice call on the invoice in flight, no step
\* takes a row that is synced to another status.
C3_SyncedStaysSynced ==
    [][OpsOf = {"validateInvoice", "syncInvoice"} =>
          \A r \in invoiceValidation :
              r.validationStatus = "synced" =>
                  \A r2 \in invoiceValidation' :
                      r2.validationId = r.validationId => r2.validationStatus = "synced"]_vars

\* both calls are syncInvoice, have returned, and their remote writes succeeded
BothSynced ==
    /\ OpsOf = {"syncInvoice"}
    /\ \A p \in Procs : pc[p] = "done" /\ The(loc[p].out).success

-----------------------------------------------------------------------------
(* Properties of the checks *)

\* a validateInvoice call has returned a result
Validated == lastCall.op = "validateInvoice" /\ ~lastCall.threw

Codes(issues) == {issues[k].code : k \in 1..Len(issues)}

\* C13: validateInvoice returns the issues of its four checks merged; its status is
\* blocked exactly when one of them has severity error and ready otherwise; readyForSync
\* is true exactly when the status is ready, in the result and in the stored row.
C13_BlockedIffError ==
    Validated =>
        \A invoice \in {ledger[lastCall.id]} :
        \A merged \in {checkCustomerMapping(customerMapping, invoice.organizationId,
                                            invoice.contractualManagerId).issues
                       \o checkSkuMappings(skuMapping, invoice.lineItems).issues
                       \o checkInvoiceStatus(invoice) \o checkDataQuality(invoice)} :
            /\ lastCall.result.blockingIssues = merged
            /\ lastCall.result.status \in {"ready", "blocked"}
            /\ lastCall.result.status = "blocked"
                  <=> \E k \in 1..Len(merged) : merged[k].severity = "error"
            /\ lastCall.result.readyForSync <=> lastCall.result.status = "ready"
            /\ \A r \in RowsOf(invoiceValidation, lastCall.id) :
                  r.validationStatus # "synced" =>
                      /\ r.validationStatus = lastCall.result.status
                      /\ r.readyForSync <=> r.validationStatus = "ready"

\* an invoice without number, with a zero total and a SKU awaiting creation is ready
C13_Witness ==
    /\ Validated
    /\ lastCall.result.status = "ready"
    /\ {"MISSING_INVOICE_NUMBER", "ZERO_TOTAL", "SKU_NEEDS_CREATION"}
          \subseteq Codes(lastCall.result.blockingIssues)

\* C14: the confidence score num/den of a validation equals 0.4 x (1 if the customer
\* mapping is valid, else 0) + 0.6 x (mapped / total distinct SKUs, 1 without SKUs); it
\* lies in [0, 1] and is at most 0.6 when the customer mapping is not valid.
C14_ConfidenceScore ==
    Validated =>
        \A score \in {lastCall.result.confidenceScore},
           c \in {IF lastCall.result.customerMappingValidated THEN 1 ELSE 0},
           total \in {lastCall.result.skuSummary.total},
           mapped \in {lastCall.result.skuSummary.mapped} :
            /\ score.den > 0
            /\ mapped <= total
            /\ total > 0 => score.num * 10 * total = (4 * c * total + 6 * mapped) * score.den
            /\ total = 0 => score.num * 10 = (4 * c + 6) * score.den
            /\ 0 <= score.num /\ score.num <= score.den
            /\ c = 0 => score.num * 10 <= 6 * score.den

\* an invoice with an invalid customer mapping and all of its SKUs mapped scores 0.6
C14_Witness ==
    /\ Validated
    /\ ~lastCall.result.customerMappingValidated
    /\ lastCall.result.skuSummary.total = 2
    /\ lastCall.result.skuSummary.mapped = 2
    /\ lastCall.result.confidenceScore.num * 10 = 6 * lastCall.result.confidenceScore.den

\* the distinct SKUs (by code, else id) of the line items that no SKU-mapping row matches
NoRowSkus(sm, lineItems) ==
    {OrElse(lineItems[k].skuCode, lineItems[k].skuId) :
        k \in {j \in 1..Len(lineItems) :
                  /\ ~Falsy(OrElse(lineItems[j].skuCode, lineItems[j].skuId))
                  /\ \A r \in sm :
                        /\ r.atekSkuCode # OrElse(lineItems[j].skuCode, lineItems[j].skuId)
                        /\ Falsy(lineItems[j].skuId) \/ r.atekSkuId # lineItems[j].skuId}}

\* C15: when k >= 1 distinct SKUs of the invoice have no SKU-mapping row, validateInvoice
\* returns blocked with exactly one SKU_NO_MAPPING issue, whose count is k and whose list
\* is those k SKUs; with two distinct SKUs, one mapped and one without row, and a valid
\* customer mapping, the confidence is 0.70.
C15_NoMappingIssue ==
    Validated =>
        \A missing \in {NoRowSkus(skuMapping, ledger[lastCall.id].lineItems)},
           issues \in {lastCall.result.blockingIssues} :
            missing # {} =>
                /\ lastCall.result.status = "blocked"
                /\ Cardinality({k \in 1..Len(issues) : issues[k].code = "SKU_NO_MAPPING"}) = 1
                /\ \A k \in 1..Len(issues) :
                      issues[k].code = "SKU_NO_MAPPING" =>
                          /\ issues[k].severity = "error"
                          /\ issues[k].count = Cardinality(missing)
                          /\ Len(issues[k].skus) = Cardinality(missing)
                          /\ {issues[k].skus[j] : j \in 1..Len(issues[k].skus)} = missing
                /\ (/\ lastCall.result.customerMappingValidated
                    /\ lastCall.result.skuSummary.total = 2
                    /\ lastCall.result.skuSummary.mapped = 1)
                      => lastCall.result.confidenceScore.num * 10
                            = 7 * lastCall.result.confidenceScore.den

\* two distinct SKUs, one approved and one without row, under an approved customer
C15_Witness ==
    /\ Validated
    /\ Cardinality(NoRowSkus(skuMapping, ledger[lastCall.id].lineItems)) = 1
    /\ lastCall.result.customerMappingValidated
    /\ lastCall.result.skuSummary.total = 2
    /\ lastCall.result.skuSummary.mapped = 1
    /\ lastCall.result.confidenceScore = [num |-> 140, den |-> 200]

\* C16: the mapping row validation resolves for the invoice is the row the invoice
\* listing resolves for it (the row of the organization and manager, else the row of the
\* organization without manager, else any row of the organization), and validation reports
\* CUSTOMER_NO_MAPPING only when the organization has no mapping row at all.
C16_SameResolution ==
    (Validated /\ ~Falsy(ledger[lastCall.id].organizationId)) =>
        \A inv \in {ledger[lastCall.id]} :
            /\ EffectiveMapping(
                   FindCustomerMapping(customerMapping, inv.organizationId,
                                       OrElse(inv.contractualManagerId, "")),
                   customerMapping, inv.organizationId, OrElse(inv.contractualManagerId, ""))
                 = findMapping(customerMapping, inv.organizationId, inv.contractualManagerId)
            /\ "CUSTOMER_NO_MAPPING" \in Codes(lastCall.result.blockingIssues)
                 => \A r \in customerMapping : r.atekOrganizationId # inv.organizationId

\* the rows of the table keyed by an organization and a manager
RowsKeyed(cm, org, manager) ==
    {r \in cm : r.atekOrganizationId = org /\ r.atekContractualManagerId = manager}

\* the row validation resolves for an invoice: the first row keyed by its organization
\* and manager, else the first row keyed by its organization and the empty manager
ResolvedRow(cm, inv) ==
    IF RowsKeyed(cm, inv.organizationId, OrElse(inv.contractualManagerId, "")) # {}
    THEN {r \in RowsKeyed(cm, inv.organizationId, OrElse(inv.contractualManagerId, "")) :
             \A q \in RowsKeyed(cm, inv.organizationId, OrElse(inv.contractualManagerId, "")) :
                 r.mappingId <= q.mappingId}
    ELSE {r \in RowsKeyed(cm, inv.organizationId, "") :
             \A q \in RowsKeyed(cm, inv.organizationId, "") : r.mappingId <= q.mappingId}

\* the first code that applies, "none" when the resolved row is approved and linked
FirstCustomerCode(inv, resolved) ==
    IF Falsy(inv.organizationId) THEN "CUSTOMER_NO_ORG"
    ELSE IF resolved = {} THEN "CUSTOMER_NO_MAPPING"
    ELSE IF \E r \in resolved : r.mappingStatus # "approved" THEN "CUSTOMER_NOT_APPROVED"
    ELSE IF \E r \in resolved : Falsy(r.quickbooksCustomerId) THEN "CUSTOMER_NO_QB_LINK"
    ELSE "none"

\* C17: the customer check of validateInvoice never throws; it is valid exactly when the
\* resolved mapping row is approved and has a target customer id, and otherwise raises
\* exactly one issue, an error whose code is the first that applies in the order
\* CUSTOMER_NO_ORG, CUSTOMER_NO_MAPPING, CUSTOMER_NOT_APPROVED, CUSTOMER_NO_QB_LINK.
C17_CustomerVerdict ==
    (lastCall.op = "validateInvoice" /\ lastCall.id \in DOMAIN ledger) =>
        /\ ~lastCall.threw
        /\ \A code \in {FirstCustomerCode(ledger[lastCall.id],
                            ResolvedRow(customerMapping, ledger[lastCall.id]))},
              issues \in {lastCall.result.blockingIssues} :
               /\ lastCall.result.customerMappingValidated <=> code = "none"
               /\ Cardinality({k \in 1..Len(issues) : issues[k].type = "customer_mapping"})
                     = IF code = "none" THEN 0 ELSE 1
               /\ \A k \in 1..Len(issues) :
                     issues[k].type = "customer_mapping" =>
                         issues[k].severity = "error" /\ issues[k].code = code

\* a resolved row that is neither approved nor linked: reported as not approved
C17_Witness ==
    /\ Validated
    /\ \E r \in ResolvedRow(customerMapping, ledger[lastCall.id]) :
          r.mappingStatus # "approved" /\ Falsy(r.quickbooksCustomerId)
    /\ ~lastCall.result.customerMappingValidated
    /\ "CUSTOMER_NOT_APPROVED" \in Codes(lastCall.result.blockingIssues)

\* the SKU-mapping rows a line item resolves to: those of its code, else those of its id
RowsOfItem(sm, item) ==
    IF ~Falsy(item.skuCode) /\ \E r \in sm : r.atekSkuCode = item.skuCode
    THEN {r \in sm : r.atekSkuCode = item.skuCode}
    ELSE IF ~Falsy(item.skuId) THEN {r \in sm : r.atekSkuId = item.skuId}
    ELSE {}

\* the lines that resolve to no row, to a row without target item, or to an unapproved row
OffendingLines(sm, lineItems) ==
    {j \in 1..Len(lineItems) :
        \A r \in RowsOfItem(sm, lineItems[j]) :
            \/ \E q \in RowsOfItem(sm, lineItems[j]) : q.mappingId < r.mappingId
            \/ Falsy(r.quickbooksItemId)
            \/ r.mappingStatus # "approved"}

\* the last call is a sync of a ledger invoice some line of which cannot be built
SyncOfOffending ==
    /\ lastCall.op = "syncInvoice"
    /\ lastCall.id \in DOMAIN ledger
    /\ OffendingLines(skuMapping, ledger[lastCall.id].lineItems) # {}

\* the last call wrote nothing to the platform and failed with missing_sku_mappings,
\* its error naming the SKU of every offending line
MissingSkusReported ==
    /\ lastCall.remote.kind = "none"
    /\ qbInvoices = lastCall.qbBefore
    /\ ~lastCall.result.success
    /\ lastCall.result.skippedReason = "missing_sku_mappings"
    /\ lastCall.result.error.prefix = "Missing SKU mappings: "
    /\ \A names \in {lastCall.result.error.names},
          items \in {ledger[lastCall.id].lineItems} :
           /\ Len(names) = Cardinality(OffendingLines(skuMapping, items))
           /\ \A j \in OffendingLines(skuMapping, items) :
                 \E k \in 1..Len(names) :
                     names[k].sku = OrElse(items[j].skuCode, items[j].skuId)

\* C18 as stated: whenever a line item resolves to no SKU mapping, to one without target
\* item id or to one that is not approved, syncInvoice writes nothing to the platform and
\* returns success = false, skippedReason missing_sku_mappings and an error naming every
\* offending line's SKU.
C18_AsStated == SyncOfOffending => MissingSkusReported

\* C18: when the customer of the invoice resolves to an approved, linked mapping and a line
\* item resolves to no SKU mapping, to one without target item id or to one that is not
\* approved, syncInvoice writes nothing to the platform and returns success = false,
\* skippedReason missing_sku_mappings and an error naming every offending line's SKU.
C18_MissingSkusStopSync ==
    (/\ SyncOfOffending
     /\ FirstCustomerCode(ledger[lastCall.id],
                          ResolvedRow(customerMapping, ledger[lastCall.id])) = "none")
        => MissingSkusReported

\* two offending lines, one without row and one with an unapproved row, both named
C18_Witness ==
    /\ SyncOfOffending
    /\ lastCall.result.skippedReason = "missing_sku_mappings"
    /\ Len(lastCall.result.error.names) = 2
    /\ \E k \in 1..2 : lastCall.result.error.names[k].notApproved
    /\ \E k \in 1..2 : ~lastCall.result.error.names[k].notApproved

\* the last call is a sync of a ledger invoice
SyncOfInvoice == lastCall.op = "syncInvoice" /\ lastCall.id \in DOMAIN ledger

\* the steps before the remote write of the last call: the customer resolved, the
\* duplicate lookup (made for an invoice with a number) answered with nothing or with an
\* invoice of that number, and every line built
WriteWasGated ==
    /\ FirstCustomerCode(ledger[lastCall.id],
                         ResolvedRow(customerMapping, ledger[lastCall.id])) = "none"
    /\ \A q \in lastCall.remote.found :
          /\ ~Falsy(ledger[lastCall.id].invoiceNumber)
          /\ q \in lastCall.qbBefore
          /\ q.DocNumber = ledger[lastCall.id].invoiceNumber
    /\ lastCall.remote.kind = (IF lastCall.remote.found # {} THEN "update" ELSE "create")
    /\ ledger[lastCall.id].lineItems # <<>>
    /\ OffendingLines(skuMapping, ledger[lastCall.id].lineItems) = {}

\* the row is marked synced by the last call only after its remote write succeeded
MarkAfterWrite ==
    /\ invoiceValidation # lastCall.before
          => lastCall.remote.kind # "none" /\ lastCall.remote.ok
    /\ lastCall.result.success => lastCall.remote.kind # "none" /\ lastCall.remote.ok
    /\ qbInvoices # lastCall.qbBefore => lastCall.remote.kind # "none" /\ lastCall.remote.ok

\* C22 as stated: syncInvoice issues no remote write before customer resolution,
\* duplicate lookup and payload build have all completed successfully, and marks the row
\* synced only after the remote write returned successfully.
C22_AsStated ==
    SyncOfInvoice =>
        /\ lastCall.remote.kind # "none" =>
              /\ WriteWasGated
              /\ ~Falsy(ledger[lastCall.id].invoiceNumber)
              /\ lastCall.remote.found = {} =>
                    \A q \in lastCall.qbBefore :
                        q.DocNumber # ledger[lastCall.id].invoiceNumber
        /\ MarkAfterWrite

\* C22: syncInvoice issues no remote write before the customer is resolved, the duplicate
\* lookup (made when the invoice has a number, a failed lookup counting as no duplicate)
\* has returned and the payload is built, and marks the row synced only after the remote
\* write returned successfully.
C22_StepsInOrder ==
    SyncOfInvoice =>
        /\ lastCall.remote.kind # "none" => WriteWasGated
        /\ MarkAfterWrite

\* a sync that went through every step: created on the platform, then marked synced
C22_Witness ==
    /\ SyncOfInvoice
    /\ lastCall.remote.kind = "create"
    /\ lastCall.remote.ok
    /\ lastCall.result.success
    /\ invoiceValidation # lastCall.before
    /\ \E v \in invoiceValidation :
          v.atekInvoiceId = lastCall.id /\ v.validationStatus = "synced"

\* the duplicate lookup of the last call failed: the platform held an invoice of the
\* number and the lookup answered null
LookupFailed ==
    /\ SyncOfInvoice
    /\ ~Falsy(ledger[lastCall.id].invoiceNumber)
    /\ \E q \in lastCall.qbBefore : q.DocNumber = ledger[lastCall.id].invoiceNumber
    /\ lastCall.remote.found = {}

\* C23: a duplicate lookup that fails writes nothing and does not make syncInvoice fail
\* or skip: the sync goes on as if there were no duplicate and, once the customer is
\* resolved and the payload built, issues a create, whose outcome is the outcome of the
\* sync.
C23_FailedLookupCreates ==
    LookupFailed =>
        /\ lastCall.remote.kind # "update"
        /\ lastCall.remote.kind = "none" =>
              /\ qbInvoices = lastCall.qbBefore
              /\ lastCall.result.skippedReason
                    \in {"no_customer_mapping", "missing_sku_mappings"}
        /\ (/\ FirstCustomerCode(ledger[lastCall.id],
                                 ResolvedRow(customerMapping, ledger[lastCall.id])) = "none"
            /\ ledger[lastCall.id].lineItems # <<>>
            /\ OffendingLines(skuMapping, ledger[lastCall.id].lineItems) = {})
              => /\ lastCall.remote.kind = "create"
                 /\ Falsy(lastCall.result.skippedReason)
                 /\ lastCall.result.success = lastCall.remote.ok
                 /\ lastCall.remote.ok =>
                       /\ lastCall.qbBefore \subseteq qbInvoices
                       /\ \E q \in qbInvoices \ lastCall.qbBefore :
                             q.Id = lastCall.result.quickbooksInvoiceId
                 /\ ~lastCall.remote.ok =>
                       /\ qbInvoices = lastCall.qbBefore
                       /\ lastCall.result.error.prefix = "QB Error: "

\* a second invoice of the number created because the lookup failed
C23_Witness ==
    /\ LookupFailed
    /\ lastCall.remote.kind = "create"
    /\ lastCall.result.success
    /\ Cardinality({q \in qbInvoices :
                       q.DocNumber = ledger[lastCall.id].invoiceNumber}) = 2

-----------------------------------------------------------------------------
(* Properties of the batches *)

\* the k-th call of the batch failed at its remote write
WriteFailed(r) == ~r.success /\ Falsy(r.skippedReason) /\ r.error.prefix = "QB Error: "

C20_OneRecordPerId ==
    lastCall.op = "validateBatch" =>
        /\ Len(lastCall.result.results) = Len(lastCall.result.ids)
        /\ lastCall.result.total = Len(lastCall.result.ids)

\* the sync-eligible invoices of the ledger among the first limit of them
Fetched(limit) ==
    {i \in DOMAIN ledger :
        /\ ledger[i].status \in {"sent", "paid", "partial", "overdue"}
        /\ Cardinality({j \in DOMAIN ledger :
                           /\ ledger[j].status \in {"sent", "paid", "partial", "overdue"}
                           /\ \E a, b \in 1..Len(LedgerOrder) :
                                 a < b /\ LedgerOrder[a] = j /\ LedgerOrder[b] = i}) < limit}

\* C21: validateAllPending validates exactly the fetched sync-eligible invoices that had
\* no row in the validation table, once each, and every row the table held before the
\* call is unchanged by it.
C21_ValidatesOnlyUnvalidated ==
    lastCall.op = "validateAllPending" =>
        \A b \in {lastCall.result.batch} :
            /\ {b.results[k].invoiceId : k \in 1..Len(b.results)}
                  = {i \in Fetched(lastCall.result.limit) :
                        \A v \in lastCall.before : v.atekInvoiceId # i}
            /\ \A j, k \in 1..Len(b.results) :
                  b.results[j].invoiceId = b.results[k].invoiceId => j = k
            /\ lastCall.before \subseteq invoiceValidation
            /\ Cardinality(invoiceValidation)
                  = Cardinality(lastCall.before) + Len(b.results)

\* a call that validates one invoice and passes over a fetched one whose row is synced
C21_Witness ==
    /\ lastCall.op = "validateAllPending"
    /\ Len(lastCall.result.batch.results) = 1
    /\ \E v \in lastCall.before :
          /\ v.validationStatus = "synced"
          /\ v.atekInvoiceId \in Fetched(lastCall.result.limit)
          /\ v \in invoiceValidation

-----------------------------------------------------------------------------
(* Properties of withRetry *)

RECURSIVE Pow2(_)
Pow2(n) == IF n = 0 THEN 1 ELSE 2 * Pow2(n - 1)

Transient(error) ==
    \/ error.class \in {"rate_limit", "timeout"}
    \/ error.status >= 500 /\ error.status <= 599

\* C25: withRetry re-invokes the operation after a failure exactly when the failure is
\* transient (rate limiting, a timeout, any 5xx response); any other failure is rethrown
\* after a single attempt.
C25_RetriesIffTransient ==
    \A r \in {loc["p1"]} :
        /\ pc["p1"] = "wait" => Transient(r.thrown[r.calls])
        /\ (pc["p1"] = "done" /\ r.calls <= r.options.maxRetries /\ r.thrown # <<>>
              /\ Len(r.thrown) = r.calls)
              => ~Transient(r.thrown[r.calls])

-----------------------------------------------------------------------------
(* Properties of the SKU matching *)

FracEq(x, y) == x.num * y.den = y.num * x.den

\* positions of the catalog holding an active item without soft-delete marker
Eligible(qbItems) ==
    {k \in 1..Len(qbItems) :
        /\ qbItems[k].Active = "true"
        /\ ~Includes(qbItems[k].Name, <<"(", "s", "u", "p", "p", "r", "i", "m", "é", ")">>)
        /\ ~Includes(qbItems[k].Name, <<"(", "d", "e", "l", "e", "t", "e", "d", ")">>)}

CodeHits(qbItems, sku) ==
    IF Blank(sku.code) THEN {}
    ELSE {k \in Eligible(qbItems) :
             /\ ~Blank(qbItems[k].Sku)
             /\ normalizeString(qbItems[k].Sku) = normalizeString(sku.code)}

NameHits(qbItems, sku) ==
    IF Blank(sku.name) THEN {}
    ELSE {k \in Eligible(qbItems) :
             normalizeString(qbItems[k].Name) = normalizeString(sku.name)}

FuzzyHits(qbItems, sku) ==
    IF Blank(sku.name) THEN {}
    ELSE {k \in Eligible(qbItems) :
             FracAtLeast(stringSimilarity(sku.name, qbItems[k].Name), 8, 10)}

\* the match reports the item of one of the positions
ReportsOneOf(match, qbItems, hits) == \E k \in hits : match.qbItem = {qbItems[k]}

\* the match reports a best item of the positions, with nine tenths of its similarity
ReportsBestOf(match, qbItems, hits) ==
    \E k \in hits :
       /\ match.qbItem = {qbItems[k]}
       /\ \A j \in hits : ~FracLess(stringSimilarity(match.atekSku.name, qbItems[k].Name),
                                    stringSimilarity(match.atekSku.name, qbItems[j].Name))
       /\ \E sim \in {stringSimilarity(match.atekSku.name, qbItems[k].Name)} :
             FracEq(match.confidence, Fraction(sim.num * 9, sim.den * 10))

FirstApplicableClass(match, qbItems) ==
    IF CodeHits(qbItems, match.atekSku) # {}
    THEN /\ match.matchType = "exact_code"
         /\ FracEq(match.confidence, Fraction(1, 1))
         /\ ReportsOneOf(match, qbItems, CodeHits(qbItems, match.atekSku))
    ELSE IF NameHits(qbItems, match.atekSku) # {}
    THEN /\ match.matchType = "exact_name"
         /\ FracEq(match.confidence, Fraction(19, 20))
         /\ ReportsOneOf(match, qbItems, NameHits(qbItems, match.atekSku))
    ELSE IF FuzzyHits(qbItems, match.atekSku) # {}
    THEN /\ match.matchType = "fuzzy_name"
         /\ ReportsBestOf(match, qbItems, FuzzyHits(qbItems, match.atekSku))
    ELSE /\ match.matchType = "no_match"
         /\ FracEq(match.confidence, Fraction(0, 1))
         /\ match.qbItem = {}

MatcherRan == lastCall.op \in {"getMatches", "approveAllMatches"}

CatalogFetched == MatcherRan /\ lastCall.qbBefore.connected /\ lastCall.qbBefore.fetched

\* C26: with the catalog fetched, the matcher returns for every ledger SKU, in order, the
\* first applicable class of exact_code (confidence 1.0), exact_name (0.95), fuzzy_name
\* (a best candidate of similarity at least 0.80, confidence 0.90 x similarity) and
\* no_match (confidence 0, no item), the candidates being the active items without
\* soft-delete marker in their name; the reported item is always such a candidate
C26_FirstApplicableClass ==
    CatalogFetched =>
        /\ Len(lastCall.result.matches) = Len(getUniqueSKUsFromInvoices(ledger))
        /\ \A k \in 1..Len(lastCall.result.matches) :
              /\ lastCall.result.matches[k].atekSku = getUniqueSKUsFromInvoices(ledger)[k]
              /\ FirstApplicableClass(lastCall.result.matches[k], lastCall.qbBefore.qbItems)
              /\ \A item \in lastCall.result.matches[k].qbItem :
                    \E j \in Eligible(lastCall.qbBefore.qbItems) :
                       lastCall.qbBefore.qbItems[j] = item

\* the catalog starts with a soft-deleted item carrying the widget's code and name, and
\* the widget is matched by fuzzy name to the next item, at 0.9 x 6/7
C26_Witness ==
    /\ CatalogFetched
    /\ lastCall.qbBefore.qbItems = <<ItemDeleted, ItemNear>>
    /\ \E k \in 1..Len(lastCall.result.matches) :
          /\ lastCall.result.matches[k].atekSku.code = WidgetLine.skuCode
          /\ lastCall.result.matches[k].matchType = "fuzzy_name"
          /\ lastCall.result.matches[k].qbItem = {ItemNear}
          /\ FracEq(lastCall.result.matches[k].confidence, Fraction(54, 70))

\* C27: when the platform is not connected or the fetch of its catalog fails, the
\* matcher returns, without throwing, one result per ledger SKU, each no_match without
\* item and with confidence 0
C27_NoCatalogNoMatch ==
    (MatcherRan /\ ~(lastCall.qbBefore.connected /\ lastCall.qbBefore.fetched)) =>
        /\ ~lastCall.threw
        /\ Len(lastCall.result.matches) = Len(getUniqueSKUsFromInvoices(ledger))
        /\ \A k \in 1..Len(lastCall.result.matches) :
              /\ lastCall.result.matches[k].atekSku = getUniqueSKUsFromInvoices(ledger)[k]
              /\ lastCall.result.matches[k].matchType = "no_match"
              /\ lastCall.result.matches[k].qbItem = {}
              /\ FracEq(lastCall.result.matches[k].confidence, Fraction(0, 1))

\* the platform is connected, the fetch of the catalog fails, and the two SKUs of the
\* ledger are returned
C27_Witness ==
    /\ lastCall.op = "getMatches"
    /\ lastCall.qbBefore.connected
    /\ ~lastCall.qbBefore.fetched
    /\ Len(lastCall.result.matches) = 2

ApprovalRan == lastCall.op = "approveAllMatches"

\* the rows of the code are those the table had before the call
Untouched(code) ==
    {r \in skuMapping : r.atekSkuCode = code}
       = {r \in lastCall.before : r.atekSkuCode = code}

\* the codes of the SKUs the matcher matched to no item
UnmatchedCodes(matches) ==
    {matches[k].atekSku.code : k \in 1..Len(matches)}
       \ {matches[k].atekSku.code :
             k \in {j \in 1..Len(matches) : matches[j].matchType # "no_match"}}

\* C28: approveAllMatches creates or changes no row for a SKU matched no_match, counts
\* every match as approved or skipped, and, run again on the same matches, changes no row
\* and approves nothing
C28_Idempotent ==
    ApprovalRan =>
        /\ lastCall.result.approvedCount + lastCall.result.skippedCount
              = lastCall.result.totalProcessed
        /\ \A code \in UnmatchedCodes(lastCall.result.matches) : Untouched(code)
        /\ \E again \in {approveAllMatches(skuMapping, lastCall.result.matches, clock + 1)} :
              /\ again.sm = skuMapping
              /\ again.approvedCount = 0

-----------------------------------------------------------------------------
(* Properties of the customer matching algorithm *)

MatchReturned == pc["p1"] = "done" /\ loc["p1"].op = "matchOrganization"

\* a display name of the form NNNN-NN...
SubEntityForm(displayName) ==
    /\ Len(displayName) >= 7
    /\ \A k \in {1, 2, 3, 4, 6, 7} : displayName[k] \in Digits
    /\ displayName[5] = "-"

\* a parent customer whose display name starts with the four digits of the code
CarriesCode(displayName, code) ==
    /\ Len(code) = 4
    /\ Len(displayName) >= 4
    /\ SubSeq(displayName, 1, 4) = code
    /\ ~SubEntityForm(displayName)

CodeCarriers(org, qbCustomers) ==
    {k \in 1..Len(qbCustomers) :
        org.orgNumber # NoString
        /\ CarriesCode(qbCustomers[k].DisplayName, padOrgNumber(org.orgNumber))}

NameSimilarity(org, customer) ==
    combinedSimilarity(org.name, extractNameFromDisplayName(customer.DisplayName))

\* the parent customers whose name is more than 0.60 similar to the organization's
SimilarNames(org, qbCustomers) ==
    {k \in 1..Len(qbCustomers) :
        /\ ~SubEntityForm(qbCustomers[k].DisplayName)
        /\ FracAbove(NameSimilarity(org, qbCustomers[k]), 6, 10)}

\* the confidence of the fuzzy-name method for a similarity
FuzzyConfidence(confidence, sim) ==
    IF FracAbove(sim, 85, 100) THEN FracEq(confidence, Fraction(7 * sim.num, 10 * sim.den))
    ELSE FracEq(confidence, Fraction(5 * sim.num, 10 * sim.den))

Hundredths(x) == (100 * x.num) \div x.den

StatusOf(result) ==
    determineMappingStatus(
        MatchResult(IF result.qbCustomer = {} THEN Null ELSE The(result.qbCustomer).Id,
                    Hundredths(result.confidenceScore), result.matchingMethod))

MatchOrganizationAsSpecified(org, qbCustomers, result) ==
    /\ CodeCarriers(org, qbCustomers) # {}
          => /\ result.matchingMethod = "org_num_exact"
             /\ \E k \in CodeCarriers(org, qbCustomers) : result.qbCustomer = {qbCustomers[k]}
             /\ \E score \in {90, 95, 100} : FracEq(result.confidenceScore, Fraction(score, 100))
    /\ result.matchingMethod = "name_fuzzy"
          => /\ CodeCarriers(org, qbCustomers) = {}
             /\ \E k \in SimilarNames(org, qbCustomers) :
                   /\ result.qbCustomer = {qbCustomers[k]}
                   /\ FuzzyConfidence(result.confidenceScore,
                                      NameSimilarity(org, qbCustomers[k]))
             /\ FracAtLeast(Fraction(70, 100), result.confidenceScore.num,
                            result.confidenceScore.den)
    /\ \A customer \in result.qbCustomer : ~SubEntityForm(customer.DisplayName)
    /\ (CodeCarriers(org, qbCustomers) = {} /\ SimilarNames(org, qbCustomers) = {})
          => /\ result.matchingMethod = "no_match"
             /\ result.qbCustomer = {}
             /\ FracEq(result.confidenceScore, Fraction(0, 1))
             /\ StatusOf(result) = "needs_review"

-----------------------------------------------------------------------------
(* Properties of the audit log *)

LogAdded == matchingAlgorithmLog' \ matchingAlgorithmLog

ValidateCalled == clock' = clock + 1 /\ lastCall'.op = "validateInvoice"

MatchingRan == clock' = clock + 1 /\ lastCall'.op = "runCustomerMatching"

\* the step adds to the log one row, of the entity type and id, and removes none
AppendsOneRow(entityType, atekEntityId) ==
    /\ matchingAlgorithmLog \subseteq matchingAlgorithmLog'
    /\ Cardinality(LogAdded) = 1
    /\ \A row \in LogAdded : row.entityType = entityType /\ row.atekEntityId = atekEntityId

\* a matching run adds one row per organization and nothing else
AppendsOneRowPerOrganization ==
    /\ matchingAlgorithmLog \subseteq matchingAlgorithmLog'
    /\ Cardinality(LogAdded) = Len(Organizations)
    /\ \A k \in 1..Len(Organizations) :
          Cardinality({row \in LogAdded : row.atekEntityId = Organizations[k]}) = 1

\* C30 as stated: every call of validateInvoice appends exactly one log row of entity
\* type invoice, and a matching run exactly one row per organization
C30_AsStated ==
    [][/\ ValidateCalled => AppendsOneRow("invoice", lastCall'.id)
       /\ MatchingRan => AppendsOneRowPerOrganization]_vars

\* C30: every call of validateInvoice that finds its invoice appends exactly one log row
\* of entity type invoice, also when the validation row is synced and left as it is; a
\* call for an invoice the ledger does not hold throws and appends nothing; a matching
\* run appends exactly one row per organization, whatever the number of mapping rows
C30_OneLogRowPerCall ==
    [][/\ (ValidateCalled /\ ~lastCall'.threw) => AppendsOneRow("invoice", lastCall'.id)
       /\ (ValidateCalled /\ lastCall'.threw) => LogAdded = {}
       /\ MatchingRan => AppendsOneRowPerOrganization]_vars

\* an organization has two mapping rows and one log row, and the last call validated an
\* invoice whose synced row it left as it was: the log holds the rows of both validations
C30_Witness ==
    /\ lastCall.op = "validateInvoice"
    /\ ~lastCall.threw
    /\ invoiceValidation = lastCall.before
    /\ \E r \in lastCall.before : r.atekInvoiceId = lastCall.id /\ SkipsStore(r)
    /\ Cardinality({row \in matchingAlgorithmLog :
                       row.entityType = "invoice" /\ row.atekEntityId = lastCall.id}) = 2
    /\ \E o \in OrgIds :
          /\ Cardinality({r \in customerMapping : r.atekOrganizationId = o}) = 2
          /\ Cardinality({row \in matchingAlgorithmLog : row.atekEntityId = o}) = 1

-----------------------------------------------------------------------------
(* Properties of the payload arithmetic *)

TaxReturned == pc["p1"] = "done" /\ loc["p1"].op = "buildQCTaxDetail"

\* amount is the nearest number of cents to percent (in thousandths of a percent) of the
\* subtotal: twice their distance is at most one cent
NearestCent(amount, subtotal, percent) ==
    /\ 2 * (amount * 100000 - subtotal * percent) <= 100000
    /\ 2 * (subtotal * percent - amount * 100000) <= 100000

TaxDetailAsSpecified(subtotal, detail) ==
    /\ Len(detail.TaxLine) = 2
    /\ NearestCent(detail.TaxLine[1].Amount, subtotal, 5000)
    /\ NearestCent(detail.TaxLine[2].Amount, subtotal, 9975)
    /\ detail.TotalTax = detail.TaxLine[1].Amount + detail.TaxLine[2].Amount
    /\ subtotal = 100000
          => /\ detail.TaxLine[1].Amount = 5000
             /\ detail.TaxLine[2].Amount = 9975
             /\ detail.TotalTax = 14975

\* C31: for every subtotal in cents buildQCTaxDetail returns two tax lines, 5 % and
\* 9.975 % of the subtotal, each rounded to the cent, and TotalTax their sum; for 1000.00
\* they are 50.00 and 99.75, and TotalTax 149.75
C31_TaxDetail ==
    TaxReturned => TaxDetailAsSpecified(loc["p1"].subtotal, The(loc["p1"].out))

\* the taxes of 20.00: 9.975 % is 1.995, half a cent between 1.99 and 2.00, returned as
\* 2.00, and the total is 3.00
C31_Witness ==
    /\ TaxReturned
    /\ loc["p1"].subtotal = 2000
    /\ The(loc["p1"].out).TaxLine[2].Amount = 200
    /\ The(loc["p1"].out).TotalTax = 300

PayloadBuilt == pc["p2"] = "done" /\ loc["p2"].op = "buildQBInvoice"

\* C32: every line of a payload built by buildQBInvoice has Amount = UnitPrice x Qty,
\* whatever the ledger line: of amount 0, with a percentage discount, or with a total
\* of its own
C32_AmountIsPriceTimesQty ==
    (PayloadBuilt /\ The(loc["p2"].out).success) =>
        \A k \in 1..Len(The(loc["p2"].out).Line) :
           The(loc["p2"].out).Line[k].Amount
              = The(loc["p2"].out).Line[k].UnitPrice * The(loc["p2"].out).Line[k].Qty

-----------------------------------------------------------------------------
(* Validator and sync engine on the same invoice and mappings *)

ValidatedReady ==
    /\ lastCall.op = "validateInvoice"
    /\ ~lastCall.threw
    /\ lastCall.result.status = "ready"

SyncFollows ==
    /\ clock' = clock + 1
    /\ lastCall'.op = "syncInvoice"
    /\ lastCall'.id = lastCall.id

\* C33: when validateInvoice has returned ready for an invoice and syncInvoice is the next
\* call, for the same invoice and with the mappings as they were, the sync does not stop
\* with skippedReason no_customer_mapping or missing_sku_mappings
C33_ReadyMeansMapped ==
    [][(ValidatedReady /\ SyncFollows) =>
          lastCall'.result.skippedReason
             \notin {"no_customer_mapping", "missing_sku_mappings"}]_vars

-----------------------------------------------------------------------------
(* Repeated syncs of one ledger invoice *)

\* the sync just made created a remote invoice
SyncCreated ==
    /\ clock' = clock + 1
    /\ lastCall'.op = "syncInvoice"
    /\ lastCall'.remote.kind = "create"
    /\ lastCall'.remote.ok

\* no duplicate lookup of the sync just made failed: none was made (the invoice has no
\* number), or it found nothing only when the platform held no invoice of that number
LookupSucceeded(id) ==
    \/ Falsy(ledger[id].invoiceNumber)
    \/ lastCall'.remote.found # {}
    \/ \A q \in qbInvoices : q.DocNumber # ledger[id].invoiceNumber

\* validateInvoice returns ready for the invoice as the tables stand
ValidatesReady(id) ==
    ValidateCall(invoiceValidation, matchingAlgorithmLog, customerMapping, skuMapping,
                 ledger[id], nextId).result.status = "ready"

\* the remote invoices written for the ledger invoice so far
RemoteInvoicesOf(id) == {c[2] : c \in {d \in confirmed : d[1] = id}}

\* C34: a sync whose lookup and write succeed creates a remote invoice for a ledger
\* invoice that validates as ready only when no remote invoice was written for it before
\* (later syncs update that one), also when the invoice has no number
C34_OneRemoteInvoice ==
    [][(SyncCreated /\ ValidatesReady(lastCall'.id) /\ LookupSucceeded(lastCall'.id))
          => RemoteInvoicesOf(lastCall'.id) = {}]_vars

-----------------------------------------------------------------------------
(* Progress of validateAllPending *)

SyncEligible(id) == ledger[id].status \in {"sent", "paid", "partial", "overdue"}

HasValidationRow(iv, id) == \E v \in iv : v.atekInvoiceId = id

\* the sync-eligible invoices without a validation row in the table
Unvalidated(iv) ==
    {id \in DOMAIN ledger : SyncEligible(id) /\ ~HasValidationRow(iv, id)}

\* a call of validateAllPending has just returned
PendingCalled == lastCall' # lastCall /\ lastCall'.op = "validateAllPending"

\* C35: with the ledger unchanged and validateAllPending called again and again with one
\* limit, a call made while some sync-eligible invoice lacks a validation row validates
\* at least one such invoice, also when the ledger holds more eligible invoices than the
\* limit, so that eventually every eligible invoice has a row
C35_CallValidatesOne ==
    [][(PendingCalled /\ Unvalidated(invoiceValidation) # {})
          => Unvalidated(invoiceValidation') # Unvalidated(invoiceValidation)]_vars

\* the liveness this gives under the fairness of SpecPending: eventually no eligible
\* invoice lacks a row
EventuallyAllValidated == <>(Unvalidated(invoiceValidation) = {})

-----------------------------------------------------------------------------
(* Concurrent validateInvoice calls and the rows of one invoice *)

\* C36: the validation table holds at most one row per ledger invoice id, whatever the
\* interleaving of the validateInvoice calls in progress
C36_OneRowPerInvoice ==
    \A id \in InvoiceIds : Cardinality(RowsOf(invoiceValidation, id)) <= 1

-----------------------------------------------------------------------------
(* The readyForSync flag and the status of a validation row *)

Mirrors(iv) == \A r \in iv : r.readyForSync <=> r.validationStatus = "ready"

\* a call of one of the three operations has just returned
FlagStep ==
    /\ clock' = clock + 1
    /\ lastCall'.op \in {"validateInvoice", "approveForSync", "markAsSynced"}

\* as stated: validateInvoice, approveForSync and markAsSynced keep every row's
\* readyForSync equal to (validationStatus = ready)
C37_AsStated ==
    [][(FlagStep /\ Mirrors(invoiceValidation)) => Mirrors(invoiceValidation')]_vars

\* C37: a row whose validationStatus is ready has readyForSync true; a row with
\* readyForSync true whose status is not ready is synced (markAsSynced leaves the flag) or
\* was flagged by approveForSync (which sets the flag whatever the status)
C37_ReadyIsFlagged ==
    \A r \in invoiceValidation :
        /\ r.validationStatus = "ready" => r.readyForSync
        /\ (r.readyForSync /\ r.validationStatus # "ready") =>
              \/ r.validationStatus = "synced"
              \/ r.syncApprovedBy # Null

\* a blocked row approved by hand and then marked synced: flagged, and not ready
C37_Witness ==
    /\ lastCall.op = "markAsSynced"
    /\ \E r \in invoiceValidation, o \in lastCall.before :
          /\ r.validationId = o.validationId
          /\ o.validationStatus = "blocked" /\ o.readyForSync
          /\ r.validationStatus = "synced" /\ r.readyForSync
          /\ r.syncApprovedBy # Null

-----------------------------------------------------------------------------
(* What syncAllReady attempts *)

AllReadyCalled == clock' = clock + 1 /\ lastCall'.op = "syncAllReady"

\* the invoices with a row that was ready and flagged when the call was made
ReadyAtCall == {v.atekInvoiceId : v \in {r \in invoiceValidation :
                                          r.validationStatus = "ready" /\ r.readyForSync}}

\* the invoices the call attempted: one record each in its results
Attempted(result) == {result.results[k].atekInvoiceId : k \in 1..Len(result.results)}

\* nothing was done for the invoice: its rows and its remote invoices are as they were
NotAttempted(id) ==
    /\ id \notin Attempted(lastCall'.result)
    /\ RowsOf(invoiceValidation', id) = RowsOf(invoiceValidation, id)
    /\ RemoteInvoicesOf(id)' = RemoteInvoicesOf(id)

\* C38: syncAllReady attempts only invoices whose row is ready with readyForSync true at
\* the call; an invoice whose row is synced, and a blocked invoice flagged by
\* approveForSync, is not attempted: no record, no change of its row, no remote write
C38_AttemptsOnlyReady ==
    [][AllReadyCalled =>
          /\ Attempted(lastCall'.result) \subseteq ReadyAtCall
          /\ \A r \in invoiceValidation :
                r.validationStatus # "ready" => NotAttempted(r.atekInvoiceId)
          /\ qbInvoices' \ qbInvoices # {} => Attempted(lastCall'.result) # {}]_vars

\* a call made with one invoice synced, one blocked and flagged by hand, and one ready:
\* the ready one was attempted
C38_Witness ==
    /\ lastCall.op = "syncAllReady"
    /\ \E s \in lastCall.before : s.validationStatus = "synced"
    /\ \E b \in lastCall.before : b.validationStatus = "blocked" /\ b.readyForSync
    /\ Attempted(lastCall.result) # {}

-----------------------------------------------------------------------------
(* clearAllValidations: the rows removed and the count returned *)

AllCleared == clock' = clock + 1 /\ lastCall'.op = "clearAllValidations"

\* C39: clearAllValidations removes every row whose status is pending, ready or blocked,
\* and every synced row is still in the table afterwards, with every column as it was
C39_ClearsAllButSynced ==
    [][AllCleared =>
          /\ \A r \in invoiceValidation' :
                r.validationStatus \notin {"pending", "ready", "blocked"}
          /\ \A r \in invoiceValidation :
                r.validationStatus = "synced" => r \in invoiceValidation'
          /\ invoiceValidation' \subseteq invoiceValidation]_vars

\* a call made on a table holding a synced row and a row that is not: one is kept
C39_Witness ==
    /\ lastCall.op = "clearAllValidations"
    /\ \E r \in lastCall.before : r.validationStatus = "synced" /\ r \in invoiceValidation
    /\ \E r \in lastCall.before : r.validationStatus \in {"ready", "blocked"}

\* C40: the deleted field clearAllValidations returns is the number of rows it removed,
\* the rows that were pending, ready or blocked before the call
C40_DeletedCountsRemoved ==
    [][AllCleared =>
          /\ lastCall'.result.deleted
                = Cardinality(invoiceValidation \ invoiceValidation')
          /\ lastCall'.result.deleted
                = Cardinality({r \in invoiceValidation :
                                 r.validationStatus \in {"pending", "ready", "blocked"}})]_vars

====
